---- MODULE Spec2Model ----
(***************************************************************************)
(* Model of the GrantsAssist backend: the eligibility scoring engine       *)
(* (backend/app/api/eligibility.py), the profile, application and          *)
(* authentication handlers (backend/app/api/users.py, applications.py,     *)
(* auth.py) and the stored entities (backend/app/models/database.py).      *)
(*                                                                         *)
(* A nullable Python value is a sequence: <<>> is None, <<v>> is the       *)
(* value v.  Python's truthiness is computed per column type.              *)
(***************************************************************************)
EXTENDS Integers, Sequences, FiniteSets, TLC

\* ------------------------------------------------------------------ bounds

\* Calls of the evaluator made on one (profile, program) pair.
MaxCalls == 2

\* Fields of one evaluated profile that are present but falsy ("", 0, False).
MaxFalsy == 1

\* Rows of the grant_programs table.
MaxPrograms == 3

\* Calls of the evaluator that overlap in time.
MaxCallers == 2

\* Server processes that handle profile requests at the same time.
MaxWorkers == 2

\* Writes to the applications table that take a timestamp.
MaxWrites == 4

\* Rows of the users table of a database that starts empty.
MaxUsers == 2

\* Fields of a profile filled in between two evaluations.
MaxFills == 2

\* Writes to applications after which requests without a valid token stop.
MaxRejectedAt == 1

\* Rows of the device_tokens table.
MaxDevices == 2

\* Instants told apart within one day.
TicksPerDay == 3

\* ------------------------------------------------------------ Python values

None == <<>>

Some(v) == <<v>>

\* bool(x) for a nullable String column: None and "" are falsy.
TruthyStr(x) == x # None /\ x[1] # ""

\* Mutant: only None is falsy.
TruthyNum_ZeroPresent(x) == x # None

\* bool(x) for a nullable Float or Integer column: None and 0 are falsy.
TruthyNum(x) == x # None /\ x[1] # 0

\* bool(x) for a nullable Boolean column: None and False are falsy.
TruthyBool(x) == x # None /\ x[1]

\* ------------------------------------------------------------------- state

VARIABLES
    user_profiles,   \* the user_profiles table: its rows in insertion order
    grant_programs,  \* the grant_programs table: its rows in query order
    response,        \* the response to the latest request
    arg_profile,     \* the profile handed to the evaluator called on its own
    arg_program,     \* the program handed to the evaluator called on its own
    returned,        \* what each such call returned, in order
    calls,           \* the calls of the evaluator that run side by side
    frames,          \* the local variables (missing, score) of those calls
    in_flight,       \* the profile requests being handled, statement by statement
    applications,    \* the applications table: its rows in insertion order
    clock,           \* datetime.utcnow(), as the number of writes so far
    users,           \* the users table: its rows in insertion order
    notification_preferences,  \* the notification_preferences table
    device_tokens,   \* the device_tokens table
    last_run         \* the latest run of the deadline reminder job

vars ==
    <<user_profiles, grant_programs, response, arg_profile, arg_program,
      returned, calls, frames, in_flight, applications, clock, users,
      notification_preferences, device_tokens, last_run>>

\* The stored entities.
stored == <<user_profiles, grant_programs, applications>>

\* What the evaluator called on its own works on.
evaluation == <<arg_profile, arg_program, returned>>

\* What the side-by-side calls of the evaluator work on.
concurrent == <<calls, frames>>

\* What the deadline reminder job reads and what it leaves.
notifications == <<notification_preferences, device_tokens, last_run>>

\* ------------------------------------------------------------------ schema

\* GrantCategory: the values of the enumeration.
GrantCategory ==
    {"healthcare", "small_business", "education", "nonprofit",
     "agriculture", "technology", "housing"}

\* UserProfile: the columns the evaluator reads.
StrFields == {"organization_name", "address", "city", "state", "ein", "uei_number"}

OrgTypeValues ==
    {None, Some("healthcare"), Some("nonprofit"), Some("hospital"),
     Some("clinic"), Some("retail")}

StrValues == {None, Some(""), Some("x")}

UserProfile ==
    [organization_name : StrValues,
     organization_type : OrgTypeValues,
     address : StrValues,
     city : StrValues,
     state : StrValues,
     ein : StrValues,
     uei_number : StrValues,
     sam_registered : {None, Some(FALSE), Some(TRUE)},
     annual_revenue : {None, Some(0), Some(500000)},
     employee_count : {None, Some(0), Some(10)}]

\* GrantProgram: the columns the evaluator reads.  agency is free text and
\* category is a nullable enumeration column.
AgencyValues ==
    {None, Some("USDA"), Some("SBA"), Some("HHS"), Some("DOC"),
     Some("usda"), Some("NASA")}

CategoryValues == {None} \cup {Some(c) : c \in GrantCategory}

\* The primary key of the n-th stored program.
ProgramId(n) == "p" \o ToString(n)

ProgramIds == {ProgramId(n) : n \in 1..MaxPrograms}

GrantProgram ==
    [id : ProgramIds, agency : AgencyValues, category : CategoryValues,
     is_active : BOOLEAN]

\* The primary key uuid4 gives the n-th row of the users table.
UserId(n) == "u" \o ToString(n)

\* hash_password(password): the hash keeps which password it was made of
\* and verifies for no other.
hash_password(password) == [hashed |-> password]

\* The ids of the rows the users table holds when requests are handled by
\* users who registered before.
Users == {"u1", "u2"}

\* Those rows.
StoredUsers ==
    <<[id |-> "u1", email |-> "a@example.com",
       hashed_password |-> Some(hash_password("pw-a"))],
      [id |-> "u2", email |-> "b@example.com",
       hashed_password |-> Some(hash_password("pw-b"))]>>

\* The deadline reminder job has not run.
NoRun == [at |-> None]

\* --------------------------------------------------------------- evaluator

FederalAgencies == {"USDA", "SBA", "HHS", "DOC"}

\* Mutant: the agency is compared without regard to case.
AgencyInList_IgnoreCase(program) ==
    program.agency # None /\ program.agency[1] \in FederalAgencies \cup {"usda"}

\* program.agency in ["USDA", "SBA", "HHS", "DOC"]
AgencyInList(program) ==
    program.agency # None /\ program.agency[1] \in FederalAgencies

\* The rules of check_program_eligibility in the order the code tests them;
\* each is <<condition, text appended to missing, points deducted>>.  Every
\* condition reads program.category.value only where the code does.
Rules(profile, program) ==
    LET cat == program.category[1]
    IN << <<(~TruthyStr(profile.organization_name)) /\ cat # "education",
            "Organization name required", 20>>,
          <<(~TruthyStr(profile.ein)) /\ cat \notin {"education", "individual"},
            "EIN (Tax ID) required for federal grants", 15>>,
          <<(~TruthyStr(profile.address)) \/ (~TruthyStr(profile.city))
                \/ (~TruthyStr(profile.state)),
            "Complete address required", 10>>,
          <<AgencyInList(program) /\ ~TruthyBool(profile.sam_registered),
            "SAM.gov registration required", 15>>,
          <<(~TruthyStr(profile.uei_number)) /\ AgencyInList(program),
            "UEI number required for federal grants", 15>>,
          <<cat = "small_business" /\ ~TruthyNum(profile.annual_revenue),
            "Annual revenue information needed", 10>>,
          <<cat = "small_business" /\ ~TruthyNum(profile.employee_count),
            "Employee count needed", 10>>,
          <<cat = "healthcare"
                /\ profile.organization_type \notin
                     {Some("healthcare"), Some("nonprofit"), Some("hospital"),
                      Some("clinic")},
            "Must be healthcare organization", 30>> >>

\* Mutant: the address rule deducts without recording what is missing.
RECURSIVE RunRules_NoAppend(_, _)
RunRules_NoAppend(rules, n) ==
    IF n = 0
    THEN [missing |-> <<>>, score |-> 100]
    ELSE LET before == RunRules_NoAppend(rules, n - 1)
         IN IF rules[n][1]
            THEN [missing |-> IF n = 3 THEN before.missing
                              ELSE Append(before.missing, rules[n][2]),
                  score |-> before.score - rules[n][3]]
            ELSE before

\* Mutant: each missing requirement is put at the front of the list.
RECURSIVE RunRules_Prepend(_, _)
RunRules_Prepend(rules, n) ==
    IF n = 0
    THEN [missing |-> <<>>, score |-> 100]
    ELSE LET before == RunRules_Prepend(rules, n - 1)
         IN IF rules[n][1]
            THEN [missing |-> <<rules[n][2]>> \o before.missing,
                  score |-> before.score - rules[n][3]]
            ELSE before

\* Mutant: the missing list is shared between calls (a mutable default
\* argument): a call starts from the list the previous call left.
RECURSIVE RunRules_SharedMissing(_, _)
RunRules_SharedMissing(rules, n) ==
    IF n = 0
    THEN [missing |-> IF returned = <<>> THEN <<>>
                      ELSE returned[Len(returned)].missing_requirements,
          score |-> 100]
    ELSE LET before == RunRules_SharedMissing(rules, n - 1)
         IN IF rules[n][1]
            THEN [missing |-> Append(before.missing, rules[n][2]),
                  score |-> before.score - rules[n][3]]
            ELSE before

\* The statements of lines 37-70 run over rules[1..n]: the missing list and
\* the score after them.
RECURSIVE RunRules(_, _)
RunRules(rules, n) ==
    IF n = 0
    THEN [missing |-> <<>>, score |-> 100]
    ELSE LET before == RunRules(rules, n - 1)
         IN IF rules[n][1]
            THEN [missing |-> Append(before.missing, rules[n][2]),
                  score |-> before.score - rules[n][3]]
            ELSE before

\* Mutant: the score is not clamped.
ClampScore_NoClamp(score) == score

\* max(0, score) with score a float: the int 0 unless score > 0.
ClampScore(score) == IF score > 0 THEN score ELSE 0

\* str(score) in the f-string of the note, score being the value max()
\* returned: a float prints with ".0", the int 0 prints bare.
FormatScore(score) ==
    IF score > 0 THEN ToString(score) \o ".0" ELSE ToString(0)

\* program.category.value on a None category.
AttributeError == [raised |-> "AttributeError"]

Raised(result) == "raised" \in DOMAIN result

\* Mutant: the comparison with the threshold is turned round.
Eligible_Below(missing, score) == Len(missing) = 0 \/ score <= 70

\* Mutant: the threshold is exclusive.
Eligible_Exclusive(missing, score) == Len(missing) = 0 \/ score > 70

\* eligible = len(missing) == 0 or score >= 70
Eligible(missing, score) == Len(missing) = 0 \/ score >= 70

check_program_eligibility(profile, program) ==
    IF program.category = None
    THEN AttributeError
    ELSE LET run == RunRules(Rules(profile, program), 8)
             score == ClampScore(run.score)
         IN [program_id |-> program.id,
             eligible |-> Eligible(run.missing, score),
             match_score |-> score,
             missing_requirements |-> run.missing,
             notes |-> IF Len(run.missing) # 0
                       THEN "Match score: " \o FormatScore(score) \o "%"
                       ELSE "You appear to meet all requirements"]

\* ---------------------------------------------- the evaluator on its own

\* Number of fields of p that are present but falsy.
FalsyCount(p) ==
    Cardinality({f \in StrFields : p[f] = Some("")})
    + (IF p.sam_registered = Some(FALSE) THEN 1 ELSE 0)
    + (IF p.annual_revenue = Some(0) THEN 1 ELSE 0)
    + (IF p.employee_count = Some(0) THEN 1 ELSE 0)

EvalProfiles == {p \in UserProfile : FalsyCount(p) <= MaxFalsy}

\* One category for each way the evaluator treats a category.
EvalCategories ==
    {None, Some("healthcare"), Some("small_business"), Some("education"),
     Some("technology")}

EvalPrograms ==
    [id : {ProgramId(1)}, agency : AgencyValues, category : EvalCategories,
     is_active : {TRUE}]

NoResponse == [op |-> "none"]

InitEval ==
    /\ arg_profile \in EvalProfiles
    /\ arg_program \in EvalPrograms
    /\ returned = <<>>
    /\ user_profiles = <<>>
    /\ grant_programs = <<>>
    /\ response = NoResponse
    /\ calls = <<>>
    /\ frames = <<>>
    /\ in_flight = <<>>
    /\ applications = <<>>
    /\ clock = 0
    /\ users = StoredUsers
    /\ notification_preferences = <<>>
    /\ device_tokens = <<>>
    /\ last_run = NoRun

\* One call check_program_eligibility(profile, program).
Evaluate ==
    /\ Len(returned) < MaxCalls
    /\ returned' = Append(returned, check_program_eligibility(arg_profile, arg_program))
    /\ UNCHANGED <<arg_profile, arg_program, user_profiles, grant_programs, response>>
    /\ UNCHANGED <<concurrent, in_flight, applications, clock, users, notifications>>

NextEval == Evaluate

SpecEval == InitEval /\ [][NextEval]_vars

\* ------------------------------------- the evaluator on a profile filled in

\* The profiles a user starts from: organization_type as entered, every
\* other field absent or filled.
FillProfiles ==
    [organization_name : {None, Some("x")},
     organization_type : {None, Some("clinic")},
     address : {None, Some("x")},
     city : {None, Some("x")},
     state : {None, Some("x")},
     ein : {None, Some("x")},
     uei_number : {None, Some("x")},
     sam_registered : {None, Some(TRUE)},
     annual_revenue : {None, Some(500000)},
     employee_count : {None, Some(10)}]

\* A federal and a non-federal small-business program, a federal
\* healthcare program and a non-federal education program.
FillPrograms ==
    {[id |-> ProgramId(1), agency |-> Some("SBA"),
      category |-> Some("small_business"), is_active |-> TRUE],
     [id |-> ProgramId(1), agency |-> Some("NASA"),
      category |-> Some("small_business"), is_active |-> TRUE],
     [id |-> ProgramId(1), agency |-> Some("HHS"),
      category |-> Some("healthcare"), is_active |-> TRUE],
     [id |-> ProgramId(1), agency |-> Some("NASA"),
      category |-> Some("education"), is_active |-> TRUE]}

\* The values a column can be given, falsy ones included.
FillValues(field) ==
    CASE field \in StrFields -> {Some(""), Some("x")}
      [] field = "sam_registered" -> {Some(FALSE), Some(TRUE)}
      [] field = "annual_revenue" -> {Some(0), Some(500000)}
      [] field = "employee_count" -> {Some(0), Some(10)}

InitFill ==
    /\ arg_profile \in FillProfiles
    /\ arg_program \in FillPrograms
    /\ returned = <<>>
    /\ user_profiles = <<>>
    /\ grant_programs = <<>>
    /\ response = NoResponse
    /\ calls = <<>>
    /\ frames = <<>>
    /\ in_flight = <<>>
    /\ applications = <<>>
    /\ clock = 0
    /\ users = StoredUsers
    /\ notification_preferences = <<>>
    /\ device_tokens = <<>>
    /\ last_run = NoRun

\* The profile object is given a value for a field that had none; clock
\* counts the fields filled in.
FillIn(field, value) ==
    /\ clock < MaxFills
    /\ arg_profile[field] = None
    /\ arg_profile' = [arg_profile EXCEPT ![field] = value]
    /\ clock' = clock + 1
    /\ UNCHANGED <<arg_program, returned, user_profiles, grant_programs,
                   response, concurrent, in_flight, applications, users,
                   notifications>>

NextFill ==
    \/ Evaluate
    \/ \E field \in DOMAIN arg_profile \ {"organization_type"} :
          \E value \in FillValues(field) : FillIn(field, value)

SpecFill == InitFill /\ [][NextFill]_vars

\* ------------------------------------------------------------ the service

\* A request without an Authorization: Bearer header.
NoToken == [kind |-> "absent"]

\* A bearer token: the sub claim it carries, whether its signature verifies
\* under settings.secret_key, and whether its exp claim has passed.
Bearer(sub, signed, expired) ==
    [kind |-> "bearer", sub |-> sub, signed |-> signed, expired |-> expired]

\* create_access_token({"sub": user.id}), within its week of validity.
ValidTokens == {Bearer(Some(user), TRUE, FALSE) : user \in Users}

\* No header, a forged token, an expired one, one without sub, and one
\* issued to a user whose row is not stored.
InvalidTokens ==
    {NoToken,
     Bearer(Some("u1"), FALSE, FALSE),
     Bearer(Some("u1"), TRUE, TRUE),
     Bearer(None, TRUE, FALSE),
     Bearer(Some("u3"), TRUE, FALSE)}

Tokens == ValidTokens \cup InvalidTokens

\* Mutant: the sub claim is trusted without looking the user up.
get_current_user_NoLookup(token) ==
    IF token.kind = "absent" THEN None
    ELSE IF (~token.signed) \/ token.expired THEN None
    ELSE token.sub

\* get_current_user: the id of the user of the token, None where the
\* dependency raises 401 (oauth2_scheme without a header, JWTError from
\* jwt.decode, no sub claim, no such user).
get_current_user(token) ==
    IF token.kind = "absent" THEN None
    ELSE IF (~token.signed) \/ token.expired THEN None
    ELSE IF token.sub = None THEN None
    ELSE IF token.sub[1] \notin {users[n].id : n \in 1..Len(users)} THEN None
    ELSE token.sub

\* The body of the 401 answer.
Unauthorized(token) ==
    IF token.kind = "absent" THEN [detail |-> "Not authenticated"]
    ELSE [detail |-> "Could not validate credentials"]

\* The dependency raised: the handler body does not run and the request is
\* answered 401.
Reject(op, token) ==
    /\ response' = [op |-> op, status |-> 401, token |-> token,
                    body |-> Unauthorized(token)]
    /\ UNCHANGED <<user_profiles, grant_programs, applications, clock,
                   evaluation, users, notifications, concurrent, in_flight>>

\* The columns of user_profiles that ProfileUpdate can set and the model reads.
ProfileFields ==
    {"full_name", "organization_name", "organization_type", "address", "city",
     "state", "zip_code", "phone", "ein", "uei_number", "sam_registered",
     "annual_revenue", "employee_count"}

\* UserProfile(user_id=user) before it is flushed: no attribute is set.
NewProfile(user) ==
    [f \in ProfileFields \cup {"user_id"} |->
        IF f = "user_id" THEN Some(user) ELSE None]

\* The INSERT of a row: a column left None takes its column default
\* (sam_registered: default=False).
Inserted(row) ==
    [row EXCEPT !.sam_registered = IF @ = None THEN Some(FALSE) ELSE @]

\* db.query(UserProfile).filter(UserProfile.user_id == user).first(): the
\* position of the row, 0 when there is none.
FirstProfile(user) ==
    LET found == {i \in 1..Len(user_profiles) : user_profiles[i].user_id = Some(user)}
    IN IF found = {} THEN 0 ELSE CHOOSE i \in found : \A j \in found : i <= j

\* Mutant: the query has no filter on the id.
FirstProgram_Unfiltered(program_id) == IF grant_programs = <<>> THEN 0 ELSE 1

\* db.query(GrantProgram).filter(GrantProgram.id == program_id).first()
FirstProgram(program_id) ==
    LET found == {i \in 1..Len(grant_programs) : grant_programs[i].id = program_id}
    IN IF found = {} THEN 0 ELSE CHOOSE i \in found : \A j \in found : i <= j

\* calculate_profile_completeness, in tenths of a percent:
\* round(filled / 9 * 100, 1).
calculate_profile_completeness(row) ==
    LET fields == {"full_name", "organization_name", "address", "city", "state",
                   "zip_code", "phone", "ein", "uei_number"}
        filled == Cardinality({f \in fields : TruthyStr(row[f])})
    IN (filled * 2000 + 9) \div 18

build_profile_response(row) ==
    [full_name |-> row.full_name,
     organization_name |-> row.organization_name,
     organization_type |-> row.organization_type,
     address |-> row.address, city |-> row.city, state |-> row.state,
     zip_code |-> row.zip_code, ein |-> row.ein, uei_number |-> row.uei_number,
     sam_registered |-> TruthyBool(row.sam_registered),
     completeness |-> calculate_profile_completeness(row)]

\* GET /api/users/profile
get_profile(token) ==
    IF get_current_user(token) = None THEN Reject("get_profile", token) ELSE
    LET user == get_current_user(token)[1]
        i == FirstProfile(user)
        row == IF i = 0 THEN Inserted(NewProfile(user)) ELSE user_profiles[i]
    IN /\ user_profiles' = IF i = 0 THEN Append(user_profiles, row)
                           ELSE user_profiles
       /\ response' = [op |-> "get_profile", user |-> user, status |-> 200,
                       token |-> token,
                       body |-> build_profile_response(row)]
       /\ UNCHANGED <<grant_programs, evaluation, users, notifications, concurrent, in_flight,
                      applications, clock>>

\* Bodies of PATCH /api/users/profile: the fields each one sets.
UpdateRequests ==
    {[full_name |-> Some("x"), organization_name |-> Some("x"),
      address |-> Some("x"), city |-> Some("x"), state |-> Some("x"),
      zip_code |-> Some("x"), ein |-> Some("x"),
      annual_revenue |-> Some(500000), employee_count |-> Some(10)],
     [sam_registered |-> Some(TRUE), uei_number |-> Some("x"),
      organization_type |-> Some("hospital")]}

\* The PATCH bodies sent by requests that overlap or are not authenticated.
OverlappingUpdates == {updates \in UpdateRequests : "uei_number" \in DOMAIN updates}

\* Mutant: the request is dumped without exclude_unset, so that a field the
\* request leaves out is written as None.
SetAttrs_DumpAll(old, updates) ==
    [f \in DOMAIN old |->
        IF f \in DOMAIN updates THEN updates[f]
        ELSE IF f \in ProfileFields THEN None ELSE old[f]]

\* for field, value in updates.model_dump(exclude_unset=True).items():
\*     setattr(profile, field, value)
SetAttrs(old, updates) ==
    [f \in DOMAIN old |->
        IF f \in DOMAIN updates THEN updates[f] ELSE old[f]]

\* PATCH /api/users/profile
update_profile(token, updates) ==
    IF get_current_user(token) = None THEN Reject("update_profile", token) ELSE
    LET user == get_current_user(token)[1]
        i == FirstProfile(user)
        old == IF i = 0 THEN NewProfile(user) ELSE user_profiles[i]
        set == SetAttrs(old, updates)
        row == IF i = 0 THEN Inserted(set) ELSE set
    IN /\ user_profiles' = IF i = 0 THEN Append(user_profiles, row)
                           ELSE [user_profiles EXCEPT ![i] = row]
       /\ response' = [op |-> "update_profile", user |-> user, status |-> 200,
                       token |-> token, request |-> updates,
                       body |-> build_profile_response(row)]
       /\ UNCHANGED <<grant_programs, evaluation, users, notifications, concurrent, in_flight,
                      applications, clock>>

\* Mutant: a verdict goes before the verdicts of equal score already placed.
RECURSIVE InsertByScore_BeforeTies(_, _)
InsertByScore_BeforeTies(sorted, v) ==
    IF sorted = <<>> THEN <<v>>
    ELSE IF Head(sorted).match_score > v.match_score
         THEN <<Head(sorted)>> \o InsertByScore_BeforeTies(Tail(sorted), v)
         ELSE <<v>> \o sorted

\* v placed in a list sorted by match_score descending, after the verdicts of
\* equal score already there.
RECURSIVE InsertByScore(_, _)
InsertByScore(sorted, v) ==
    IF sorted = <<>> THEN <<v>>
    ELSE IF Head(sorted).match_score >= v.match_score
         THEN <<Head(sorted)>> \o InsertByScore(Tail(sorted), v)
         ELSE <<v>> \o sorted

\* results.sort(key=lambda x: x.match_score, reverse=True) on the first n
\* verdicts: list.sort is stable, also with reverse=True.
RECURSIVE SortByScore(_, _)
SortByScore(verdicts, n) ==
    IF n = 0 THEN <<>>
    ELSE InsertByScore(SortByScore(verdicts, n - 1), verdicts[n])

\* Mutant: the query has no is_active filter.
ActivePrograms_All == grant_programs

\* db.query(GrantProgram).filter(GrantProgram.is_active == True).all()
ActivePrograms ==
    SelectSeq(grant_programs, LAMBDA g : g.is_active)

\* Mutant: with no profile the catalogue is still counted.
NoProfileResponse_CountsPrograms ==
    [total_programs |-> Len(ActivePrograms), eligible_count |-> 0,
     programs |-> <<>>]

\* The EligibilityResponse returned when the user has no profile.
NoProfileResponse ==
    [total_programs |-> 0, eligible_count |-> 0, programs |-> <<>>]

\* An exception no handler catches: the framework answers 500.
InternalServerError == [detail |-> "Internal Server Error"]

\* Mutant: an eligibility check creates the missing profile, as get_profile
\* does.
ProfilesAfterCheck_LazyCreate(user) ==
    IF FirstProfile(user) = 0
    THEN Append(user_profiles, Inserted(NewProfile(user)))
    ELSE user_profiles

\* The user_profiles table after an eligibility check by user: the handlers
\* only query the session, they add nothing and do not commit.
ProfilesAfterCheck(user) == user_profiles

\* Mutant: only the verdicts with nothing missing are counted.
EligibleCount_NothingMissing(verdicts) ==
    Cardinality({n \in DOMAIN verdicts : verdicts[n].missing_requirements = <<>>})

\* sum(1 for r in results if r.eligible)
EligibleCount(verdicts) ==
    Cardinality({n \in DOMAIN verdicts : verdicts[n].eligible})

\* GET /api/eligibility/check
check_eligibility(token) ==
    IF get_current_user(token) = None THEN Reject("check_eligibility", token) ELSE
    LET user == get_current_user(token)[1]
        i == FirstProfile(user)
        programs == ActivePrograms
        verdicts == [n \in 1..Len(programs) |->
                        check_program_eligibility(user_profiles[i], programs[n])]
        eligible_count == EligibleCount(verdicts)
    IN /\ response' =
            IF i = 0
            THEN [op |-> "check_eligibility", user |-> user,
                  token |-> token, status |-> 200,
                  body |-> NoProfileResponse]
            ELSE IF \E n \in 1..Len(programs) : Raised(verdicts[n])
            THEN [op |-> "check_eligibility", user |-> user,
                  token |-> token, status |-> 500,
                  body |-> InternalServerError]
            ELSE [op |-> "check_eligibility", user |-> user,
                  token |-> token, status |-> 200,
                  body |-> [total_programs |-> Len(programs),
                            eligible_count |-> eligible_count,
                            programs |-> SortByScore(verdicts, Len(programs))]]
       /\ user_profiles' = ProfilesAfterCheck(user)
       /\ UNCHANGED <<grant_programs, evaluation, users, notifications, concurrent, in_flight,
                      applications, clock>>

\* Mutant: with no profile the program is evaluated against an empty one.
CompleteProfileFirst_Evaluated(program_id) ==
    check_program_eligibility(Inserted(NewProfile("nobody")),
                              grant_programs[FirstProgram(program_id)])

\* The verdict returned when the user has no profile.
CompleteProfileFirst(program_id) ==
    [program_id |-> program_id,
     eligible |-> FALSE,
     match_score |-> 0,
     missing_requirements |-> <<"Please complete your profile first">>,
     notes |-> "Complete your profile to check eligibility"]

\* Mutant: the program is looked for only once the profile was found.
ProgramNotFound_AfterProfile(i, k) == i # 0 /\ k = 0

\* if not program: raise HTTPException(404), with i and k the positions of
\* the profile and of the program: the test comes before any use of the
\* profile.
ProgramNotFound(i, k) == k = 0

\* GET /api/eligibility/check/{program_id}
check_program_eligibility_endpoint(token, program_id) ==
    IF get_current_user(token) = None
    THEN Reject("check_program_eligibility_endpoint", token) ELSE
    LET user == get_current_user(token)[1]
        i == FirstProfile(user)
        k == FirstProgram(program_id)
        verdict == check_program_eligibility(user_profiles[i], grant_programs[k])
        answer ==
            IF ProgramNotFound(i, k)
            THEN [status |-> 404, body |-> [detail |-> "Program not found"]]
            ELSE IF i = 0
            THEN [status |-> 200, body |-> CompleteProfileFirst(program_id)]
            ELSE IF Raised(verdict)
            THEN [status |-> 500, body |-> InternalServerError]
            ELSE [status |-> 200, body |-> verdict]
    IN /\ response' = [op |-> "check_program_eligibility_endpoint",
                       user |-> user, status |-> answer.status,
                       token |-> token,
                       request |-> [program_id |-> program_id],
                       body |-> answer.body]
       /\ user_profiles' = ProfilesAfterCheck(user)
       /\ UNCHANGED <<grant_programs, evaluation, users, notifications, concurrent, in_flight,
                      applications, clock>>

\* The kinds of program a catalogue is made of.
ProgramKinds ==
    {[agency |-> Some("SBA"), category |-> Some("small_business"), is_active |-> TRUE],
     [agency |-> Some("NASA"), category |-> Some("technology"), is_active |-> TRUE],
     [agency |-> Some("HHS"), category |-> Some("healthcare"), is_active |-> FALSE],
     [agency |-> Some("USDA"), category |-> None, is_active |-> TRUE]}

\* The grant_programs tables of at most MaxPrograms rows; the n-th row has
\* the primary key ProgramId(n).
Catalogs ==
    UNION {
        {[n \in 1..len |->
             [id |-> ProgramId(n), agency |-> kinds[n].agency,
              category |-> kinds[n].category, is_active |-> kinds[n].is_active]]
         : kinds \in [1..len -> ProgramKinds]}
        : len \in 0..MaxPrograms}

Init ==
    /\ user_profiles = <<>>
    /\ grant_programs \in Catalogs
    /\ response = NoResponse
    /\ arg_profile = None
    /\ arg_program = None
    /\ returned = <<>>
    /\ calls = <<>>
    /\ frames = <<>>
    /\ in_flight = <<>>
    /\ applications = <<>>
    /\ clock = 0
    /\ users = StoredUsers
    /\ notification_preferences = <<>>
    /\ device_tokens = <<>>
    /\ last_run = NoRun

\* The requests of authenticated users on profiles and eligibility.
Next ==
    \/ \E token \in ValidTokens : get_profile(token)
    \/ \E token \in ValidTokens, updates \in UpdateRequests :
          update_profile(token, updates)
    \/ \E token \in ValidTokens : check_eligibility(token)
    \/ \E token \in ValidTokens, program_id \in ProgramIds \cup {"nonexistent"} :
          check_program_eligibility_endpoint(token, program_id)

Spec == Init /\ [][Next]_vars

\* ---------------------------------------------------------- applications

\* ApplicationStatus: the values of the enumeration.
ApplicationStatus ==
    {"draft", "in_progress", "ready_to_submit", "submitted", "under_review",
     "approved", "denied"}

\* The primary key uuid4 gives the row inserted at time n.
AppId(n) == "a" \o ToString(n)

\* A form_data dict: no field, or the one field of the test.
EmptyDict == [k \in {} |-> ""]

\* bool(d) for a dict.
TruthyDict(d) == DOMAIN d # {}

\* section_types of generate_application_sections, in order.
SectionTypes ==
    <<"executive_summary", "statement_of_need", "project_description",
      "goals_and_objectives", "budget_justification", "sustainability_plan">>

\* The dict generate_application_sections returns: a text, written outside
\* the handlers, for every section type.
Sections == [k \in {SectionTypes[n] : n \in 1..Len(SectionTypes)} |-> "narrative"]

\* json.dumps of a string without characters to escape.
JsonString(v) == "\"" \o v \o "\""

\* The members of a JSON object separated by ", ".
RECURSIVE JsonJoin(_)
JsonJoin(members) ==
    IF members = <<>> THEN ""
    ELSE IF Len(members) = 1 THEN members[1]
    ELSE members[1] \o ", " \o JsonJoin(Tail(members))

\* json.dumps of the dict of sections.
JsonSections(sections) ==
    "{" \o JsonJoin([n \in 1..Len(SectionTypes) |->
                       JsonString(SectionTypes[n]) \o ": "
                           \o JsonString(sections[SectionTypes[n]])]) \o "}"

\* json.dumps(d) for a form_data dict: its keys in insertion order,
\* project_title before narratives.
JsonDumps(d) ==
    LET title == IF "project_title" \in DOMAIN d
                 THEN <<JsonString("project_title") \o ": "
                            \o JsonString(d["project_title"])>>
                 ELSE <<>>
        narratives == IF "narratives" \in DOMAIN d
                      THEN <<JsonString("narratives") \o ": "
                                 \o JsonSections(d["narratives"])>>
                      ELSE <<>>
    IN "{" \o JsonJoin(title \o narratives) \o "}"

\* The form_data dicts the handlers store.
FormDicts ==
    {EmptyDict, [project_title |-> "My Project"], [narratives |-> Sections],
     [project_title |-> "My Project", narratives |-> Sections]}

\* json.loads of a stored form_data text.
JsonLoads(text) == CHOOSE d \in FormDicts : JsonDumps(d) = text

\* Mutant: the query filters on the id alone.
FirstApplication_AnyUser(app_id, user) ==
    LET found == {i \in 1..Len(applications) : applications[i].id = app_id}
    IN IF found = {} THEN 0 ELSE CHOOSE i \in found : \A j \in found : i <= j

\* db.query(Application).filter(Application.id == app_id,
\* Application.user_id == user).first(): the position of the row, or 0.
FirstApplication(app_id, user) ==
    LET found == {i \in 1..Len(applications) :
                     /\ applications[i].id = app_id
                     /\ applications[i].user_id = user}
    IN IF found = {} THEN 0 ELSE CHOOSE i \in found : \A j \in found : i <= j

\* Mutant: the query for an existing draft finds nothing.
ExistingDraft_NotFound(user, program_id) == 0

\* The query of create_application for a draft of user for the program:
\* the position of the first such row, or 0.
ExistingDraft(user, program_id) ==
    LET found == {i \in 1..Len(applications) :
                     /\ applications[i].user_id = user
                     /\ applications[i].program_id = program_id
                     /\ applications[i].status = "draft"}
    IN IF found = {} THEN 0 ELSE CHOOSE i \in found : \A j \in found : i <= j

build_app_response(row) ==
    [id |-> row.id, program_id |-> row.program_id, status |-> row.status,
     completeness_score |-> row.completeness_score,
     created_at |-> row.created_at, updated_at |-> row.updated_at,
     submitted_at |-> row.submitted_at]

\* The table without its i-th row.
RemoveAt(table, i) ==
    [n \in 1..(Len(table) - 1) |-> IF n < i THEN table[n] ELSE table[n + 1]]

\* rows placed by updated_at descending.
RECURSIVE ByUpdatedDesc(_)
ByUpdatedDesc(rows) ==
    IF rows = <<>> THEN <<>>
    ELSE LET latest == CHOOSE i \in 1..Len(rows) :
                           \A j \in 1..Len(rows) :
                               rows[j].updated_at < rows[i].updated_at
                                   \/ (rows[j].updated_at = rows[i].updated_at /\ i <= j)
         IN <<rows[latest]>> \o ByUpdatedDesc(RemoveAt(rows, latest))

\* GET /api/applications/
list_applications(token, status) ==
    IF get_current_user(token) = None
    THEN Reject("list_applications", token) ELSE
    LET user == get_current_user(token)[1]
        own == SelectSeq(applications, LAMBDA a : a.user_id = user)
        apps == IF status # None
                THEN SelectSeq(own, LAMBDA a : a.status = status[1])
                ELSE own
        listed == ByUpdatedDesc(apps)
    IN /\ response' = [op |-> "list_applications", user |-> user,
                       status |-> 200, token |-> token,
                       request |-> [status |-> status],
                       body |-> [total |-> Len(listed),
                                 applications |->
                                     [n \in 1..Len(listed) |->
                                         build_app_response(listed[n])]]]
       /\ UNCHANGED <<user_profiles, grant_programs, applications, clock,
                      evaluation, users, notifications, concurrent, in_flight>>

\* POST /api/applications/
create_application(token, program_id) ==
    IF get_current_user(token) = None
    THEN Reject("create_application", token) ELSE
    LET user == get_current_user(token)[1]
        k == FirstProgram(program_id)
        existing == ExistingDraft(user, program_id)
        now == clock + 1
        app == [id |-> AppId(now), user_id |-> user, program_id |-> program_id,
                status |-> "draft", completeness_score |-> 0,
                form_data |-> None, created_at |-> now, updated_at |-> now,
                submitted_at |-> None]
        answer ==
            IF k = 0
            THEN [status |-> 404, body |-> [detail |-> "Program not found"]]
            ELSE IF existing # 0
            THEN [status |-> 400,
                  body |-> [detail |->
                      "You already have a draft application for this program"]]
            ELSE [status |-> 200, body |-> build_app_response(app)]
    IN /\ answer.status = 200 => clock < MaxWrites
       /\ response' = [op |-> "create_application", user |-> user,
                       status |-> answer.status, token |-> token,
                       request |-> [program_id |-> program_id],
                       body |-> answer.body]
       /\ applications' = IF answer.status = 200
                          THEN Append(applications, app) ELSE applications
       /\ clock' = IF answer.status = 200 THEN now ELSE clock
       /\ UNCHANGED <<user_profiles, grant_programs, evaluation, users, notifications, concurrent,
                      in_flight>>

\* GET /api/applications/{app_id}
get_application(token, app_id) ==
    IF get_current_user(token) = None
    THEN Reject("get_application", token) ELSE
    LET user == get_current_user(token)[1]
        i == FirstApplication(app_id, user)
    IN /\ response' =
            [op |-> "get_application", user |-> user,
             status |-> IF i = 0 THEN 404 ELSE 200, token |-> token,
             request |-> [app_id |-> app_id],
             body |-> IF i = 0 THEN [detail |-> "Application not found"]
                      ELSE build_app_response(applications[i])]
       /\ UNCHANGED <<user_profiles, grant_programs, applications, clock,
                      evaluation, users, notifications, concurrent, in_flight>>

\* Bodies of PATCH /api/applications/{app_id}.
ApplicationUpdates ==
    {[form_data |-> None, status |-> Some("submitted")],
     [form_data |-> None, status |-> Some("draft")],
     [form_data |-> Some([project_title |-> "My Project"]), status |-> None],
     [form_data |-> Some(EmptyDict), status |-> None]}

\* Mutant: a status update leaves submitted_at as it was.
SubmittedAt_Kept(status, submitted_at, now) == submitted_at

\* if updates.status == ApplicationStatus.SUBMITTED:
\*     app.submitted_at = datetime.utcnow()
SubmittedAt(status, submitted_at, now) ==
    IF status = "submitted" THEN Some(now) ELSE submitted_at

\* PATCH /api/applications/{app_id}: the commit writes the row, and with it
\* updated_at, only when an attribute was given another value.
update_application(token, app_id, updates) ==
    IF get_current_user(token) = None
    THEN Reject("update_application", token) ELSE
    LET user == get_current_user(token)[1]
        i == FirstApplication(app_id, user)
        now == clock + 1
        old == applications[i]
        with_form == IF updates.form_data # None /\ TruthyDict(updates.form_data[1])
                     THEN [old EXCEPT !.form_data =
                              Some(JsonDumps(updates.form_data[1]))]
                     ELSE old
        with_status == IF updates.status # None
                       THEN [with_form EXCEPT
                                !.status = updates.status[1],
                                !.submitted_at =
                                    SubmittedAt(updates.status[1], @, now)]
                       ELSE with_form
        written == with_status # old
        row == IF written THEN [with_status EXCEPT !.updated_at = now] ELSE old
    IN IF i = 0
       THEN /\ response' = [op |-> "update_application", user |-> user,
                            status |-> 404, token |-> token,
                            request |-> [app_id |-> app_id, updates |-> updates],
                            body |-> [detail |-> "Application not found"]]
            /\ UNCHANGED <<user_profiles, grant_programs, applications, clock,
                           evaluation, users, notifications, concurrent, in_flight>>
       ELSE /\ written => clock < MaxWrites
            /\ response' = [op |-> "update_application", user |-> user,
                            status |-> 200, token |-> token,
                            request |-> [app_id |-> app_id, updates |-> updates],
                            body |-> build_app_response(row)]
            /\ applications' = [applications EXCEPT ![i] = row]
            /\ clock' = IF written THEN now ELSE clock
            /\ UNCHANGED <<user_profiles, grant_programs, evaluation, users, notifications,
                           concurrent, in_flight>>

\* json.loads(app.form_data) if app.form_data else {}
LoadFormData(row) ==
    IF TruthyStr(row.form_data)
    THEN JsonLoads(row.form_data[1]) ELSE EmptyDict

\* app.program of the joined load: the position of the program, or 0.
ProgramOf(row) == FirstProgram(row.program_id)

\* GET /api/applications/{app_id}/form-data
get_application_form_data(token, app_id) ==
    IF get_current_user(token) = None
    THEN Reject("get_application_form_data", token) ELSE
    LET user == get_current_user(token)[1]
        i == FirstApplication(app_id, user)
        app == applications[i]
    IN /\ response' =
            [op |-> "get_application_form_data", user |-> user,
             status |-> IF i = 0 THEN 404 ELSE 200, token |-> token,
             request |-> [app_id |-> app_id],
             body |-> IF i = 0 THEN [detail |-> "Application not found"]
                      ELSE [application_id |-> app.id,
                            program_id |-> app.program_id,
                            program_name |->
                                IF ProgramOf(app) # 0
                                THEN grant_programs[ProgramOf(app)].name
                                ELSE "Unknown",
                            form_data |-> LoadFormData(app),
                            status |-> app.status]]
       /\ UNCHANGED <<user_profiles, grant_programs, applications, clock,
                      evaluation, users, notifications, concurrent, in_flight>>

\* f"${program_data.get('min_award', 0):,}" and the same for max_award
\* raise TypeError for a program whose award is NULL.
FundingRangeRaises(row) ==
    /\ ProgramOf(row) # 0
    /\ \/ grant_programs[ProgramOf(row)].min_award = None
       \/ grant_programs[ProgramOf(row)].max_award = None

\* existing_data["narratives"] = sections
WithNarratives(d, sections) ==
    [k \in DOMAIN d \cup {"narratives"} |->
        IF k = "narratives" THEN sections ELSE d[k]]

\* POST /api/applications/{app_id}/generate-narratives: the commit writes
\* the row, and with it updated_at, only when form_data was given another
\* value.
generate_narratives(token, app_id) ==
    IF get_current_user(token) = None
    THEN Reject("generate_narratives", token) ELSE
    LET user == get_current_user(token)[1]
        i == FirstApplication(app_id, user)
        now == clock + 1
        old == applications[i]
        with_form == [old EXCEPT !.form_data =
                         Some(JsonDumps(WithNarratives(LoadFormData(old),
                                                       Sections)))]
        written == with_form # old
        row == IF written THEN [with_form EXCEPT !.updated_at = now] ELSE old
        answer ==
            IF i = 0
            THEN [status |-> 404, body |-> [detail |-> "Application not found"]]
            ELSE IF FundingRangeRaises(old)
            THEN [status |-> 500, body |-> InternalServerError]
            ELSE [status |-> 200,
                  body |-> [sections |-> Sections,
                            message |-> "Narratives generated successfully"]]
    IN /\ (answer.status = 200 /\ written) => clock < MaxWrites
       /\ response' = [op |-> "generate_narratives", user |-> user,
                       status |-> answer.status, token |-> token,
                       request |-> [app_id |-> app_id],
                       body |-> answer.body]
       /\ applications' = IF answer.status = 200
                          THEN [applications EXCEPT ![i] = row]
                          ELSE applications
       /\ clock' = IF answer.status = 200 /\ written THEN now ELSE clock
       /\ UNCHANGED <<user_profiles, grant_programs, evaluation, users,
                      notifications, concurrent, in_flight>>

\* GET /api/applications/{app_id}/pdf: generate_application_pdf is handed
\* the dict application_data where it reads application.status, which
\* raises AttributeError.
download_application_pdf(token, app_id) ==
    IF get_current_user(token) = None
    THEN Reject("download_application_pdf", token) ELSE
    LET user == get_current_user(token)[1]
        i == FirstApplication(app_id, user)
    IN /\ response' =
            [op |-> "download_application_pdf", user |-> user,
             status |-> IF i = 0 THEN 404 ELSE 500, token |-> token,
             request |-> [app_id |-> app_id],
             body |-> IF i = 0 THEN [detail |-> "Application not found"]
                      ELSE InternalServerError]
       /\ UNCHANGED <<user_profiles, grant_programs, applications, clock,
                      evaluation, users, notifications, concurrent, in_flight>>

\* Mutant: an application of any status is deleted.
Deletable_AnyStatus(row) == TRUE

\* app.status != ApplicationStatus.DRAFT raises 400.
Deletable(row) == row.status = "draft"

\* DELETE /api/applications/{app_id}
delete_application(token, app_id) ==
    IF get_current_user(token) = None
    THEN Reject("delete_application", token) ELSE
    LET user == get_current_user(token)[1]
        i == FirstApplication(app_id, user)
        answer ==
            IF i = 0
            THEN [status |-> 404, body |-> [detail |-> "Application not found"]]
            ELSE IF ~Deletable(applications[i])
            THEN [status |-> 400,
                  body |-> [detail |-> "Can only delete draft applications"]]
            ELSE [status |-> 200, body |-> [message |-> "Application deleted"]]
    IN /\ response' = [op |-> "delete_application", user |-> user,
                       status |-> answer.status, token |-> token,
                       request |-> [app_id |-> app_id],
                       body |-> answer.body]
       /\ applications' = IF answer.status = 200
                          THEN RemoveAt(applications, i) ELSE applications
       /\ UNCHANGED <<user_profiles, grant_programs, clock, evaluation, users, notifications,
                      concurrent, in_flight>>

\* db.query(User).filter(User.id == user_id).first(): the row.
FirstUser(user_id) ==
    users[CHOOSE n \in 1..Len(users) : users[n].id = user_id]

\* UserResponse with from_attributes: the columns of the row it shows.
UserResponse(row) ==
    [id |-> row.id, email |-> row.email, subscription_tier |-> "free"]

\* GET /api/auth/me
get_me(token) ==
    IF get_current_user(token) = None THEN Reject("get_me", token) ELSE
    LET user == get_current_user(token)[1]
    IN /\ response' = [op |-> "get_me", user |-> user, status |-> 200,
                       token |-> token, body |-> UserResponse(FirstUser(user))]
       /\ UNCHANGED <<user_profiles, grant_programs, applications, clock,
                      evaluation, users, notifications, concurrent, in_flight>>

\* The grant_programs table the application requests run on.
ApplicationCatalog ==
    <<[id |-> ProgramId(1), name |-> "Program " \o ProgramId(1),
       agency |-> Some("SBA"), category |-> Some("small_business"),
       min_award |-> Some(5000), max_award |-> Some(50000),
       is_active |-> TRUE]>>

\* The ids a request can name: those of the stored applications and one
\* that no application has.
RequestAppIds ==
    {applications[i].id : i \in 1..Len(applications)} \cup {"nonexistent"}

InitApplications ==
    /\ applications = <<>>
    /\ clock = 0
    /\ users = StoredUsers
    /\ notification_preferences = <<>>
    /\ device_tokens = <<>>
    /\ last_run = NoRun
    /\ user_profiles = <<>>
    /\ grant_programs = ApplicationCatalog
    /\ response = NoResponse
    /\ arg_profile = None
    /\ arg_program = None
    /\ returned = <<>>
    /\ calls = <<>>
    /\ frames = <<>>
    /\ in_flight = <<>>

\* A request with a token that get_current_user refuses arrives while no
\* more than MaxRejectedAt writes are done: its answer reads no table.
RejectedArrive == clock <= MaxRejectedAt

\* The application requests of authenticated callers with every input, and
\* every request with each token that get_current_user refuses, which is
\* answered before the handler reads its input.
NextApplications ==
    \/ \E token \in ValidTokens,
          status \in {None, Some("draft"), Some("submitted")} :
          list_applications(token, status)
    \/ \E token \in ValidTokens, program_id \in {ProgramId(1), "nonexistent"} :
          create_application(token, program_id)
    \/ \E token \in ValidTokens, app_id \in RequestAppIds :
          get_application(token, app_id)
    \/ \E token \in ValidTokens, app_id \in RequestAppIds,
          updates \in ApplicationUpdates :
          update_application(token, app_id, updates)
    \/ \E token \in ValidTokens, app_id \in RequestAppIds :
          delete_application(token, app_id)
    \/ \E token \in ValidTokens, app_id \in RequestAppIds :
          get_application_form_data(token, app_id)
    \/ \E token \in ValidTokens, app_id \in RequestAppIds :
          generate_narratives(token, app_id)
    \/ \E token \in ValidTokens, app_id \in RequestAppIds :
          download_application_pdf(token, app_id)
    \/ \E token \in ValidTokens : get_me(token)
    \/ \E token \in InvalidTokens :
          /\ RejectedArrive
          /\ \/ list_applications(token, None)
             \/ create_application(token, ProgramId(1))
             \/ get_application(token, AppId(1))
             \/ update_application(token, AppId(1),
                                   [form_data |-> None,
                                    status |-> Some("submitted")])
             \/ delete_application(token, AppId(1))
             \/ get_application_form_data(token, AppId(1))
             \/ generate_narratives(token, AppId(1))
             \/ download_application_pdf(token, AppId(1))
    \/ \E token \in InvalidTokens : RejectedArrive /\ get_profile(token)
    \/ \E token \in InvalidTokens, updates \in OverlappingUpdates :
          RejectedArrive /\ update_profile(token, updates)
    \/ \E token \in InvalidTokens : RejectedArrive /\ check_eligibility(token)
    \/ \E token \in InvalidTokens :
          RejectedArrive /\ check_program_eligibility_endpoint(token, ProgramId(1))
    \/ \E token \in InvalidTokens : RejectedArrive /\ get_me(token)

SpecApplications == InitApplications /\ [][NextApplications]_vars

\* -------------------------------------------------------------- accounts

\* What EmailStr accepts among the addresses requests carry.
WellFormedEmails == {"a@example.com", "b@example.com"}

Emails == WellFormedEmails \cup {"not-an-email"}

Passwords == {"pw-a", "pw-b"}

\* pwd_context.verify(plain, hashed)
verify_password(plain, hashed) == hashed = hash_password(plain)

\* db.query(User).filter(User.email == email).first(): the position of the
\* row, or 0.
FirstUserByEmail(email) ==
    LET found == {n \in 1..Len(users) : users[n].email = email}
    IN IF found = {} THEN 0 ELSE CHOOSE n \in found : \A m \in found : n <= m

\* POST /api/auth/register
register(email, password) ==
    LET existing == FirstUserByEmail(email)
        user == [id |-> UserId(Len(users) + 1), email |-> email,
                 hashed_password |-> Some(hash_password(password))]
        answer ==
            IF email \notin WellFormedEmails
            THEN [status |-> 422, body |-> [detail |-> "value is not a valid email address"]]
            ELSE IF existing # 0
            THEN [status |-> 400, body |-> [detail |-> "Email already registered"]]
            ELSE [status |-> 200, body |-> UserResponse(user)]
    IN /\ answer.status = 200 => Len(users) < MaxUsers
       /\ response' = [op |-> "register", status |-> answer.status,
                       request |-> [email |-> email, password |-> password],
                       body |-> answer.body]
       /\ users' = IF answer.status = 200 THEN Append(users, user) ELSE users
       /\ UNCHANGED <<user_profiles, grant_programs, applications, clock,
                      evaluation, concurrent, in_flight, notifications>>

\* POST /api/auth/token
login(username, password) ==
    LET n == FirstUserByEmail(username)
        accepted ==
            /\ n # 0
            /\ users[n].hashed_password # None
            /\ verify_password(password, users[n].hashed_password[1])
    IN /\ response' =
            IF accepted
            THEN [op |-> "login", status |-> 200,
                  request |-> [username |-> username, password |-> password],
                  body |-> [access_token |-> Bearer(Some(users[n].id), TRUE, FALSE),
                            token_type |-> "bearer"]]
            ELSE [op |-> "login", status |-> 401,
                  request |-> [username |-> username, password |-> password],
                  body |-> [detail |-> "Invalid credentials"]]
       /\ UNCHANGED <<users, user_profiles, grant_programs, applications, clock,
                      evaluation, concurrent, in_flight, notifications>>

\* A fresh database.
InitAccounts ==
    /\ users = <<>>
    /\ user_profiles = <<>>
    /\ grant_programs = <<>>
    /\ applications = <<>>
    /\ clock = 0
    /\ response = NoResponse
    /\ arg_profile = None
    /\ arg_program = None
    /\ returned = <<>>
    /\ calls = <<>>
    /\ frames = <<>>
    /\ in_flight = <<>>
    /\ notification_preferences = <<>>
    /\ device_tokens = <<>>
    /\ last_run = NoRun

\* The tokens presented to /me: those login issues, and none.
AccountTokens ==
    {Bearer(Some(UserId(n)), TRUE, FALSE) : n \in 1..MaxUsers} \cup {NoToken}

NextAccounts ==
    \/ \E email \in Emails, password \in Passwords : register(email, password)
    \/ \E username \in Emails, password \in Passwords : login(username, password)
    \/ \E token \in AccountTokens : get_me(token)

SpecAccounts == InitAccounts /\ [][NextAccounts]_vars

\* ----------------------------------------------------- deadline reminders

\* A datetime is a number of instants since midnight of day 0, a day having
\* TicksPerDay of them: the first is 00:00:00.000000 and the last is
\* 23:59:59.999999.
Date(day, tick) == day * TicksPerDay + tick

LastTick == TicksPerDay - 1

\* now + timedelta(days=days)
PlusDays(t, days) == t + days * TicksPerDay

\* target_date.replace(hour=0, minute=0, second=0, microsecond=0)
StartOfDay(t) == t - (t % TicksPerDay)

\* target_date.replace(hour=23, minute=59, second=59, microsecond=999999)
EndOfDay(t) == StartOfDay(t) + LastTick

\* Mutant: the window of a day ends before its last instant.
InWindow_Open(deadline, target_date) ==
    /\ deadline # None
    /\ deadline[1] >= StartOfDay(target_date)
    /\ deadline[1] < EndOfDay(target_date)

\* GrantProgram.deadline >= start_of_day, GrantProgram.deadline <= end_of_day:
\* a NULL deadline satisfies neither.
InWindow(deadline, target_date) ==
    /\ deadline # None
    /\ deadline[1] >= StartOfDay(target_date)
    /\ deadline[1] <= EndOfDay(target_date)

\* reminder_windows, in the order the job goes through them.
reminder_windows ==
    << <<7, "in 7 days">>, <<3, "in 3 days">>, <<1, "tomorrow">> >>

\* last_run holds the run of the reminder job that the latest step made; a
\* request that is rejected changes no table and runs no job.
NothingSent ==
    /\ last_run' = NoRun
    /\ UNCHANGED <<notification_preferences, device_tokens>>

\* db.query(NotificationPreference).filter(user_id == user).first(): the
\* position of the row, or 0.
FirstPreference(user) ==
    LET found == {n \in 1..Len(notification_preferences) :
                     notification_preferences[n].user_id = user}
    IN IF found = {} THEN 0 ELSE CHOOSE n \in found : \A m \in found : n <= m

\* json.dumps of the list of days a request carries by default.
DefaultReminderDays == "[7, 3, 1]"

\* PATCH /api/notifications/preferences with the given deadline_reminders
\* and the defaults of NotificationPreferencesRequest for the rest.
update_preferences(token, deadline_reminders) ==
    IF get_current_user(token) = None
    THEN Reject("update_preferences", token) /\ NothingSent ELSE
    LET user == get_current_user(token)[1]
        n == FirstPreference(user)
        row == [user_id |-> user, deadline_reminders |-> deadline_reminders,
                application_updates |-> TRUE, new_grant_alerts |-> FALSE,
                reminder_days_before |-> DefaultReminderDays]
    IN /\ notification_preferences' =
            IF n = 0 THEN Append(notification_preferences, row)
            ELSE [notification_preferences EXCEPT ![n] = row]
       /\ response' = [op |-> "update_preferences", user |-> user,
                       status |-> 200, token |-> token,
                       body |-> [deadline_reminders |-> row.deadline_reminders,
                                 application_updates |-> row.application_updates,
                                 new_grant_alerts |-> row.new_grant_alerts,
                                 reminder_days_before |-> <<7, 3, 1>>]]
       /\ last_run' = NoRun
       /\ UNCHANGED <<users, user_profiles, grant_programs, applications, clock,
                      evaluation, concurrent, in_flight, device_tokens>>

\* The position of the row of device_tokens with the user and the token,
\* or 0.
FirstDevice(user, device_token) ==
    LET found == {n \in 1..Len(device_tokens) :
                     /\ device_tokens[n].user_id = user
                     /\ device_tokens[n].device_token = device_token}
    IN IF found = {} THEN 0 ELSE CHOOSE n \in found : \A m \in found : n <= m

\* POST /api/notifications/device
register_device(token, device_token, platform) ==
    IF get_current_user(token) = None
    THEN Reject("register_device", token) /\ NothingSent ELSE
    LET user == get_current_user(token)[1]
        n == FirstDevice(user, device_token)
    IN /\ n = 0 => Len(device_tokens) < MaxDevices
       /\ device_tokens' =
            IF n = 0
            THEN Append(device_tokens,
                        [user_id |-> user, device_token |-> device_token,
                         platform |-> platform])
            ELSE device_tokens
       /\ response' = [op |-> "register_device", user |-> user,
                       status |-> 200, token |-> token,
                       body |-> [message |->
                                    IF n = 0 THEN "Device registered successfully"
                                    ELSE "Device token updated"]]
       /\ last_run' = NoRun
       /\ UNCHANGED <<users, user_profiles, grant_programs, applications, clock,
                      evaluation, concurrent, in_flight,
                      notification_preferences>>

\* DELETE /api/notifications/device
unregister_device(token, device_token) ==
    IF get_current_user(token) = None
    THEN Reject("unregister_device", token) /\ NothingSent ELSE
    LET user == get_current_user(token)[1]
        n == FirstDevice(user, device_token)
    IN /\ device_tokens' = IF n = 0 THEN device_tokens
                           ELSE RemoveAt(device_tokens, n)
       /\ response' = [op |-> "unregister_device", user |-> user,
                       status |-> 200, token |-> token,
                       body |-> [message |-> "Device unregistered"]]
       /\ last_run' = NoRun
       /\ UNCHANGED <<users, user_profiles, grant_programs, applications, clock,
                      evaluation, concurrent, in_flight,
                      notification_preferences>>

\* [p.user_id for p in prefs]
UserIdsOf(rows) == [n \in 1..Len(rows) |-> rows[n].user_id]

\* Lines 182-192 of _send_deadline_reminder: the users of the preferences
\* with deadline_reminders true, then every user who is not among those.
ReminderUserIds ==
    LET prefs == SelectSeq(notification_preferences,
                           LAMBDA p : p.deadline_reminders = TRUE)
        user_ids == UserIdsOf(prefs)
        users_with_prefs == {user_ids[n] : n \in 1..Len(user_ids)}
        all_user_ids == [n \in 1..Len(users) |-> users[n].id]
        default_users == SelectSeq(all_user_ids,
                                   LAMBDA u : u \notin users_with_prefs)
    IN user_ids \o default_users

\* apns.send_to_user for one user: a notification is posted to APNs for
\* each ios device of the user, when APNs is configured.
send_to_user(user_id, program, time_text, configured) ==
    LET devices == SelectSeq(device_tokens,
                             LAMBDA d : d.user_id = user_id /\ d.platform = "ios")
    IN [user_id |-> user_id,
        title |-> "Grant Deadline Approaching",
        body |-> program.name \o " deadline is " \o time_text
                     \o ". Don't miss out!",
        data |-> [type |-> "deadline_reminder", grantId |-> program.id],
        posted |-> IF configured
                   THEN [n \in 1..Len(devices) |-> devices[n].device_token]
                   ELSE <<>>]

\* _send_deadline_reminder(program, time_text): its calls of send_to_user.
send_deadline_reminder(program, time_text, configured) ==
    [n \in 1..Len(ReminderUserIds) |->
        send_to_user(ReminderUserIds[n], program, time_text, configured)]

\* The programs of one window, in query order.
ProgramsDue(now, days) ==
    SelectSeq(grant_programs,
              LAMBDA g : InWindow(g.deadline, PlusDays(now, days))
                             /\ g.is_active = TRUE)

\* The calls of _send_deadline_reminder of the first w windows, in order.
RECURSIVE RemindersOf(_, _)
RemindersOf(now, w) ==
    IF w = 0 THEN <<>>
    ELSE LET due == ProgramsDue(now, reminder_windows[w][1])
         IN RemindersOf(now, w - 1)
                \o [n \in 1..Len(due) |->
                       [program |-> due[n], time_text |-> reminder_windows[w][2]]]

\* The calls of send_to_user of the loop over the programs, one after
\* another.
RECURSIVE Concat(_, _)
Concat(seqs, n) == IF n = 0 THEN <<>> ELSE Concat(seqs, n - 1) \o seqs[n]

\* check_and_send_deadline_reminders at the time now, with APNs configured
\* or not: the reminders it issues and the notifications it sends.
check_and_send_deadline_reminders(now, configured) ==
    LET reminders == RemindersOf(now, Len(reminder_windows))
        sends == [n \in 1..Len(reminders) |->
                     send_deadline_reminder(reminders[n].program,
                                            reminders[n].time_text, configured)]
    IN [at |-> Some(now), configured |-> configured,
        reminders |-> [n \in 1..Len(reminders) |->
                          [program_id |-> reminders[n].program.id,
                           time_text |-> reminders[n].time_text]],
        sends |-> Concat(sends, Len(sends))]

\* POST /api/notifications/trigger-deadline-check, which takes no token:
\* the answer, and the background task it adds, which runs the job at the
\* time now. No handler writes grant_programs, which is all the job reads
\* between one window and the next.
trigger_deadline_check(now, configured) ==
    /\ last_run' = check_and_send_deadline_reminders(now, configured)
    /\ response' = [op |-> "trigger_deadline_check", status |-> 200,
                    body |-> [message |-> "Deadline check triggered"]]
    /\ UNCHANGED <<users, user_profiles, grant_programs, applications, clock,
                   evaluation, concurrent, in_flight,
                   notification_preferences, device_tokens>>

\* The deadlines of the catalogue, seen from a job that runs on day 0: none,
\* the last instant of today, the first and the last instant of tomorrow,
\* the first instant of the day after, and instants 3, 7 and 8 days ahead.
Deadlines ==
    {None, Some(Date(0, LastTick)), Some(Date(1, 0)), Some(Date(1, LastTick)),
     Some(Date(2, 0)), Some(Date(3, 0)), Some(Date(7, LastTick)),
     Some(Date(8, 0))}

\* The kinds of program of that catalogue: active with any deadline, and
\* inactive and due tomorrow.
ReminderProgramKinds ==
    [deadline : Deadlines, is_active : {TRUE}]
        \cup [deadline : {Some(Date(1, 0))}, is_active : {FALSE}]

\* Two programs: one of any kind, followed by one that is active and due
\* at the last instant of tomorrow.
ReminderCatalogs ==
    {[n \in 1..2 |->
         [id |-> ProgramId(n), name |-> "Program " \o ProgramId(n),
          agency |-> Some("SBA"), category |-> Some("small_business"),
          deadline |-> kinds[n].deadline, is_active |-> kinds[n].is_active]]
     : kinds \in {<<kind, [deadline |-> Some(Date(1, LastTick)),
                           is_active |-> TRUE]>>
                      : kind \in ReminderProgramKinds}}

\* The devices a user registers: a phone, a tablet, and the phone again
\* from an android build.
Devices ==
    {<<"device-1", "ios">>, <<"device-2", "ios">>, <<"device-1", "android">>}

InitReminders ==
    /\ grant_programs \in ReminderCatalogs
    /\ users = StoredUsers
    /\ notification_preferences = <<>>
    /\ device_tokens = <<>>
    /\ last_run = NoRun
    /\ user_profiles = <<>>
    /\ applications = <<>>
    /\ clock = 0
    /\ response = NoResponse
    /\ arg_profile = None
    /\ arg_program = None
    /\ returned = <<>>
    /\ calls = <<>>
    /\ frames = <<>>
    /\ in_flight = <<>>

NextReminders ==
    \/ \E token \in ValidTokens, deadline_reminders \in BOOLEAN :
          update_preferences(token, deadline_reminders)
    \/ \E token \in ValidTokens, device \in Devices :
          register_device(token, device[1], device[2])
    \/ \E token \in ValidTokens, device \in Devices :
          unregister_device(token, device[1])
    \/ \E tick \in {0, LastTick}, configured \in BOOLEAN :
          trigger_deadline_check(Date(0, tick), configured)

SpecReminders == InitReminders /\ [][NextReminders]_vars

\* ------------------------------------ calls of the evaluator side by side

\* The callers whose calls of check_program_eligibility overlap in time.
Callers == 1..MaxCallers

\* Mutant: missing and score are module-level names, one frame for all calls.
Frame_Global(caller) == 1

\* The frame that holds the locals of a caller's call: missing and score are
\* assigned in the function body, so each call has its own.
Frame(caller) == caller

\* Whether the test of the n-th rule evaluates program.category.value: the
\* first two do so only after their profile test, by short circuit; the
\* test of line 59 always does.
ReadsCategory(n, profile) ==
    \/ n = 1 /\ ~TruthyStr(profile.organization_name)
    \/ n = 2 /\ ~TruthyStr(profile.ein)
    \/ n \in {6, 7, 8}

\* The n-th rule of a call that does not read the category there, or whose
\* program has one.
RuleAt(profile, program, n) ==
    Rules(profile, IF program.category = None
                   THEN [program EXCEPT !.category = Some("")]
                   ELSE program)[n]

\* Lines 72-81: the result built from the locals of the call.
BuildResult(program, frame) ==
    LET score == ClampScore(frame.score)
    IN [program_id |-> program.id,
        eligible |-> Eligible(frame.missing, score),
        match_score |-> score,
        missing_requirements |-> frame.missing,
        notes |-> IF Len(frame.missing) # 0
                  THEN "Match score: " \o FormatScore(score) \o "%"
                  ELSE "You appear to meet all requirements"]

\* The profiles and programs the overlapping calls are made with.
ConcurrentProfiles ==
    {p \in EvalProfiles :
        /\ FalsyCount(p) = 0
        /\ p.organization_type = None
        /\ \A f \in StrFields : p[f] = p.organization_name
        /\ (p.sam_registered = None) = (p.organization_name = None)
        /\ (p.annual_revenue = None) = (p.organization_name = None)
        /\ (p.employee_count = None) = (p.organization_name = None)}

ConcurrentPrograms ==
    {g \in EvalPrograms :
        <<g.agency, g.category>> \in
            {<<Some("SBA"), Some("small_business")>>,
             <<Some("HHS"), Some("healthcare")>>,
             <<Some("USDA"), None>>}}

InitConcurrent ==
    /\ calls \in [Callers ->
                    [profile : ConcurrentProfiles, program : ConcurrentPrograms,
                     pc : {"enter"}, rule : {0}, result : {None}]]
    /\ frames = [c \in Callers |-> [missing |-> <<>>, score |-> 0]]
    /\ user_profiles = <<>>
    /\ grant_programs = <<>>
    /\ response = NoResponse
    /\ arg_profile = None
    /\ arg_program = None
    /\ returned = <<>>
    /\ in_flight = <<>>
    /\ applications = <<>>
    /\ clock = 0
    /\ users = StoredUsers
    /\ notification_preferences = <<>>
    /\ device_tokens = <<>>
    /\ last_run = NoRun

\* Lines 33-34: missing = [], score = 100.0
Enter(caller) ==
    /\ calls[caller].pc = "enter"
    /\ frames' = [frames EXCEPT ![Frame(caller)] = [missing |-> <<>>, score |-> 100]]
    /\ calls' = [calls EXCEPT ![caller].pc = "rules", ![caller].rule = 1]
    /\ UNCHANGED <<user_profiles, grant_programs, response, evaluation, users, notifications,
                   in_flight, applications, clock>>

\* One of the if statements of lines 37-70: its test, and when the test
\* holds the append to missing and the deduction from score.  The test of
\* a NULL category raises and ends the call.
TestRule(caller) ==
    LET call == calls[caller]
        n == call.rule
        frame == frames[Frame(caller)]
    IN /\ call.pc = "rules"
       /\ IF call.program.category = None /\ ReadsCategory(n, call.profile)
          THEN /\ calls' = [calls EXCEPT ![caller].pc = "done",
                                         ![caller].result = Some(AttributeError)]
               /\ UNCHANGED frames
          ELSE LET rule == RuleAt(call.profile, call.program, n)
               IN /\ frames' =
                       IF rule[1]
                       THEN [frames EXCEPT ![Frame(caller)] =
                                [missing |-> Append(frame.missing, rule[2]),
                                 score |-> frame.score - rule[3]]]
                       ELSE frames
                  /\ calls' = [calls EXCEPT
                                  ![caller].pc = IF n = 8 THEN "return" ELSE "rules",
                                  ![caller].rule = n + 1]
       /\ UNCHANGED <<user_profiles, grant_programs, response, evaluation, users, notifications,
                      in_flight, applications, clock>>

\* Lines 72-81: the result is built from the locals and returned.
Return(caller) ==
    /\ calls[caller].pc = "return"
    /\ calls' = [calls EXCEPT
                    ![caller].pc = "done",
                    ![caller].result =
                        Some(BuildResult(calls[caller].program,
                                         frames[Frame(caller)]))]
    /\ UNCHANGED <<frames, user_profiles, grant_programs, response, evaluation, users, notifications,
                   in_flight, applications, clock>>

NextConcurrent ==
    \/ \E caller \in Callers : Enter(caller)
    \/ \E caller \in Callers : TestRule(caller)
    \/ \E caller \in Callers : Return(caller)

SpecConcurrent == InitConcurrent /\ [][NextConcurrent]_vars

\* ------------------------------- profile requests handled side by side

\* The server processes that handle requests on the one database.
Workers == 1..MaxWorkers

Idle == [pc |-> "idle"]

ProfileOps == {"get_profile", "update_profile"}

InitProfiles ==
    /\ user_profiles = <<>>
    /\ grant_programs = <<>>
    /\ response = NoResponse
    /\ in_flight = [w \in Workers |-> Idle]
    /\ arg_profile = None
    /\ arg_program = None
    /\ returned = <<>>
    /\ calls = <<>>
    /\ frames = <<>>
    /\ applications = <<>>
    /\ clock = 0
    /\ users = StoredUsers
    /\ notification_preferences = <<>>
    /\ device_tokens = <<>>
    /\ last_run = NoRun

\* A worker takes a GET or a PATCH /api/users/profile of an authenticated
\* user; a GET carries no body.
ReceiveProfileRequest(worker, user, op, updates) ==
    /\ in_flight[worker] = Idle
    /\ op = "get_profile" => updates = <<>>
    /\ op = "update_profile" => updates \in OverlappingUpdates
    /\ in_flight' = [in_flight EXCEPT ![worker] =
                        [pc |-> "query", op |-> op, user |-> user,
                         updates |-> updates]]
    /\ UNCHANGED <<user_profiles, grant_programs, response, evaluation, users, notifications,
                   concurrent, applications, clock>>

\* profile = db.query(UserProfile).filter(...).first(): the handler holds
\* the position of the row it loaded and the values it loaded.
QueryProfile(worker) ==
    LET request == in_flight[worker]
        i == FirstProfile(request.user)
    IN /\ request.pc = "query"
       /\ in_flight' = [in_flight EXCEPT ![worker] =
                           [pc |-> "commit", op |-> request.op,
                            user |-> request.user, updates |-> request.updates,
                            found |-> i,
                            loaded |-> IF i = 0 THEN NewProfile(request.user)
                                       ELSE user_profiles[i]]]
       /\ UNCHANGED <<user_profiles, grant_programs, response, evaluation, users, notifications,
                      concurrent, applications, clock>>

\* The rest of get_profile: if not profile, the INSERT and its commit; the
\* response is built from the row as stored.
CommitGetProfile(worker) ==
    LET request == in_flight[worker]
        table == IF request.found = 0
                 THEN Append(user_profiles, Inserted(request.loaded))
                 ELSE user_profiles
        i == IF request.found = 0 THEN Len(table) ELSE request.found
    IN /\ request.pc = "commit"
       /\ request.op = "get_profile"
       /\ user_profiles' = table
       /\ response' = [op |-> "get_profile", user |-> request.user,
                       status |-> 200, body |-> build_profile_response(table[i])]
       /\ in_flight' = [in_flight EXCEPT ![worker] = Idle]
       /\ UNCHANGED <<grant_programs, evaluation, users, notifications, concurrent, applications, clock>>

\* The rest of update_profile: the setattr loop on the loaded object and
\* the commit, which INSERTs the new row or UPDATEs, in the row loaded, the
\* columns whose value the loop changed.
CommitUpdateProfile(worker) ==
    LET request == in_flight[worker]
        set == SetAttrs(request.loaded, request.updates)
        table ==
            IF request.found = 0
            THEN Append(user_profiles, Inserted(set))
            ELSE [user_profiles EXCEPT ![request.found] =
                     [f \in DOMAIN @ |->
                         IF set[f] # request.loaded[f] THEN set[f] ELSE @[f]]]
        i == IF request.found = 0 THEN Len(table) ELSE request.found
    IN /\ request.pc = "commit"
       /\ request.op = "update_profile"
       /\ user_profiles' = table
       /\ response' = [op |-> "update_profile", user |-> request.user,
                       status |-> 200, request |-> request.updates,
                       body |-> build_profile_response(table[i])]
       /\ in_flight' = [in_flight EXCEPT ![worker] = Idle]
       /\ UNCHANGED <<grant_programs, evaluation, users, notifications, concurrent, applications, clock>>

NextProfiles ==
    \/ \E worker \in Workers, user \in Users, op \in ProfileOps,
          updates \in OverlappingUpdates \cup {<<>>} :
          ReceiveProfileRequest(worker, user, op, updates)
    \/ \E worker \in Workers : QueryProfile(worker)
    \/ \E worker \in Workers : CommitGetProfile(worker)
    \/ \E worker \in Workers : CommitUpdateProfile(worker)

SpecProfiles == InitProfiles /\ [][NextProfiles]_vars

\* ------------------------------------------- claims about the evaluator

\* The verdicts the calls returned (a call that raised returned none).
Verdicts == {returned[i] : i \in {j \in 1..Len(returned) : ~Raised(returned[j])}}

\* The rule table as the specification states it, in its canonical order:
\* <<condition, deduction, missing-requirement text>>.
TableRules(p, g) ==
    << <<(~TruthyStr(p.organization_name)) /\ g.category # Some("education"),
         20, "Organization name required">>,
       <<(~TruthyStr(p.ein)) /\ g.category # Some("education"),
         15, "EIN (Tax ID) required for federal grants">>,
       <<\E f \in {"address", "city", "state"} : ~TruthyStr(p[f]),
         10, "Complete address required">>,
       <<g.agency \in {Some("USDA"), Some("SBA"), Some("HHS"), Some("DOC")}
             /\ ~TruthyBool(p.sam_registered),
         15, "SAM.gov registration required">>,
       <<(~TruthyStr(p.uei_number))
             /\ g.agency \in {Some("USDA"), Some("SBA"), Some("HHS"), Some("DOC")},
         15, "UEI number required for federal grants">>,
       <<g.category = Some("small_business") /\ ~TruthyNum(p.annual_revenue),
         10, "Annual revenue information needed">>,
       <<g.category = Some("small_business") /\ ~TruthyNum(p.employee_count),
         10, "Employee count needed">>,
       <<g.category = Some("healthcare")
             /\ p.organization_type \notin
                  {Some("healthcare"), Some("nonprofit"), Some("hospital"),
                   Some("clinic")},
         30, "Must be healthcare organization">> >>

\* The rules of the table whose condition holds.
Triggered(table) == {n \in 1..8 : table[n][1]}

RECURSIVE SumDeductions(_, _)
SumDeductions(table, rules) ==
    IF rules = {} THEN 0
    ELSE LET n == CHOOSE m \in rules : TRUE
         IN table[n][2] + SumDeductions(table, rules \ {n})

\* D: the deductions of the triggered rules, added up.
TotalDeduction(p, g) ==
    LET table == TableRules(p, g) IN SumDeductions(table, Triggered(table))

\* The texts of the triggered rules in table order.
RECURSIVE TextsUpTo(_, _, _)
TextsUpTo(table, rules, n) ==
    IF n = 0 THEN <<>>
    ELSE IF n \in rules
         THEN Append(TextsUpTo(table, rules, n - 1), table[n][3])
         ELSE TextsUpTo(table, rules, n - 1)

ExpectedMissing(p, g) ==
    LET table == TableRules(p, g) IN TextsUpTo(table, Triggered(table), 8)

\* C1: every verdict the evaluator returns has a match_score in [0, 100], and
\* when the deductions of the triggered rules total more than 100 the score
\* is 0.
C1_ScoreInRange ==
    \A v \in Verdicts :
        /\ v.match_score >= 0
        /\ v.match_score <= 100
        /\ (TotalDeduction(arg_profile, arg_program) > 100 => v.match_score = 0)

\* C1 witness: a verdict returned for deductions totalling more than 100.
C1_Witness ==
    \E v \in Verdicts :
        TotalDeduction(arg_profile, arg_program) > 100 /\ v.match_score = 0

\* C2: a verdict's missing_requirements is empty if and only if its
\* match_score is 100.
C2_EmptyIffFullScore ==
    \A v \in Verdicts : (v.missing_requirements = <<>>) <=> (v.match_score = 100)

\* C2 witness: a verdict with nothing missing and a verdict-producing call
\* made on a profile that meets every rule.
C2_Witness ==
    \E v \in Verdicts : v.missing_requirements = <<>> /\ v.match_score = 100

\* C3: a verdict is eligible exactly when nothing is missing or the score is
\* at least 70.
C3_EligibleRule ==
    \A v \in Verdicts :
        v.eligible <=> (v.missing_requirements = <<>> \/ v.match_score >= 70)

\* C3 witness: a verdict with score exactly 70, something missing, eligible.
C3_Witness ==
    \E v \in Verdicts :
        v.match_score = 70 /\ v.missing_requirements # <<>> /\ v.eligible

\* C4: match_score = max(0, 100 - D), D the total deduction of exactly the
\* triggered rules of the table.
C4_ScoreFormula ==
    \A v \in Verdicts :
        LET d == TotalDeduction(arg_profile, arg_program)
        IN v.match_score = IF 100 - d > 0 THEN 100 - d ELSE 0

\* C4 witness: a differently-cased agency and a profile without SAM
\* registration or UEI: the federal rules are not triggered.
C4_Witness ==
    \E v \in Verdicts :
        /\ arg_program.agency = Some("usda")
        /\ ~TruthyBool(arg_profile.sam_registered)
        /\ ~TruthyStr(arg_profile.uei_number)
        /\ v.match_score = 100

\* C5: missing_requirements holds the text of each triggered rule once, of no
\* other rule, in the canonical table order.
C5_MissingCanonicalOrder ==
    \A v \in Verdicts :
        v.missing_requirements = ExpectedMissing(arg_profile, arg_program)

\* C5 witness: the seven entries of an empty profile against a small-business
\* program of a listed agency.
C5_Witness ==
    \E v \in Verdicts :
        /\ Len(v.missing_requirements) = 7
        /\ v.missing_requirements[1] = "Organization name required"
        /\ v.missing_requirements[7] = "Employee count needed"

\* C6: the evaluator never raises, and for a program with no category it
\* returns the verdict of the rules that do not depend on a matching category.
C6_NeverRaises ==
    \A i \in 1..Len(returned) :
        /\ ~Raised(returned[i])
        /\ (arg_program.category = None =>
               returned[i].missing_requirements
                   = ExpectedMissing(arg_profile, arg_program))

EligibilityOps == {"check_eligibility", "check_program_eligibility_endpoint"}

\* C8: a step of check_eligibility or of check_program_eligibility_endpoint
\* leaves every stored entity as it was; in particular it creates no profile.
\* (Every request sets response.op to the operation that handled it.)
C8_ChecksWriteNothing ==
    [][response'.op \in EligibilityOps => stored' = stored]_vars

\* C8 witness: an eligibility check was answered for a user who has no
\* profile, while programs and another user's profile are stored.
C8_Witness ==
    /\ response.op \in EligibilityOps
    /\ FirstProfile(response.user) = 0
    /\ user_profiles # <<>>
    /\ grant_programs # <<>>

\* C9: check_eligibility for a user without a profile answers
\* total_programs = 0, eligible_count = 0 and no programs.  (Every request
\* sets response, and the check stores nothing, so the user has no profile
\* now exactly if they had none when the request was handled.)
C9_NoProfileEmptyResult ==
    (response.op = "check_eligibility" /\ FirstProfile(response.user) = 0)
        => /\ response.status = 200
           /\ response.body.total_programs = 0
           /\ response.body.eligible_count = 0
           /\ response.body.programs = <<>>

\* C9 witness: such an answer while two or more active programs exist.
C9_Witness ==
    /\ response.op = "check_eligibility"
    /\ FirstProfile(response.user) = 0
    /\ Len(ActivePrograms) >= 2
    /\ response.body.total_programs = 0

\* C10: the programs list of check_eligibility holds the verdicts of the
\* active programs with scores non-increasing, verdicts of equal score in
\* the order their programs have in the query.
C10_StableDescendingSort ==
    (response.op = "check_eligibility" /\ response.status = 200
         /\ FirstProfile(response.user) # 0)
        => LET ps == response.body.programs
           IN /\ Len(ps) = Len(ActivePrograms)
              /\ {ps[n].program_id : n \in 1..Len(ps)}
                    = {ActivePrograms[n].id : n \in 1..Len(ActivePrograms)}
              /\ \A m, n \in 1..Len(ps) :
                    m < n =>
                       /\ ps[m].match_score >= ps[n].match_score
                       /\ (ps[m].match_score = ps[n].match_score =>
                             FirstProgram(ps[m].program_id)
                                 < FirstProgram(ps[n].program_id))

\* C10 witness: three verdicts, the first program of the query ranked last
\* and the two others, of equal score, kept in query order.
C10_Witness ==
    /\ response.op = "check_eligibility"
    /\ response.status = 200
    /\ Len(response.body.programs) = 3
    /\ response.body.programs[1].program_id = ProgramId(2)
    /\ response.body.programs[2].program_id = ProgramId(3)
    /\ response.body.programs[3].program_id = ProgramId(1)
    /\ response.body.programs[1].match_score = response.body.programs[2].match_score
    /\ response.body.programs[2].match_score > response.body.programs[3].match_score

\* The programs of the catalogue whose is_active flag is true.
ActiveRows == {k \in 1..Len(grant_programs) : grant_programs[k].is_active}

\* C11: for a user with a profile, the result of check_eligibility has
\* total_programs equal to the number of evaluated (active) programs and to
\* the length of its programs list, and eligible_count equal to the number
\* of verdicts of that list whose eligible is true, between 0 and
\* total_programs.
C11_CountsMatchVerdicts ==
    (response.op = "check_eligibility" /\ response.status = 200
         /\ FirstProfile(response.user) # 0)
        => LET body == response.body
           IN /\ body.total_programs = Cardinality(ActiveRows)
              /\ body.total_programs = Len(body.programs)
              /\ body.eligible_count
                    = Cardinality({n \in 1..Len(body.programs) :
                                      body.programs[n].eligible})
              /\ body.eligible_count >= 0
              /\ body.eligible_count <= body.total_programs

\* C11 witness: a result with two or more verdicts, all counted eligible,
\* one of them eligible by its score while requirements are missing.
C11_Witness ==
    /\ response.op = "check_eligibility"
    /\ response.status = 200
    /\ FirstProfile(response.user) # 0
    /\ response.body.total_programs >= 2
    /\ response.body.eligible_count = response.body.total_programs
    /\ \E n \in 1..Len(response.body.programs) :
          /\ response.body.programs[n].eligible
          /\ response.body.programs[n].missing_requirements # <<>>

\* C12: for a user with a profile, the programs list of check_eligibility
\* holds exactly one verdict for each program whose is_active is true and
\* none for a program whose is_active is false.
C12_OneVerdictPerActiveProgram ==
    (response.op = "check_eligibility" /\ response.status = 200
         /\ FirstProfile(response.user) # 0)
        => \A k \in 1..Len(grant_programs) :
              Cardinality({n \in 1..Len(response.body.programs) :
                              response.body.programs[n].program_id
                                  = grant_programs[k].id})
                  = IF grant_programs[k].is_active THEN 1 ELSE 0

\* C12 witness: a result with verdicts while the catalogue holds an
\* inactive program next to the active ones.
C12_Witness ==
    /\ response.op = "check_eligibility"
    /\ response.status = 200
    /\ FirstProfile(response.user) # 0
    /\ Len(response.body.programs) >= 2
    /\ \E k \in 1..Len(grant_programs) : ~grant_programs[k].is_active

\* C13: the single-program check of an existing program by a user without
\* a profile answers the sentinel verdict: eligible false, match_score 0,
\* missing_requirements the one entry asking to complete the profile; the
\* evaluator is not run, so nothing it would raise or deduct shows.
C13_NoProfileSentinel ==
    (response.op = "check_program_eligibility_endpoint"
         /\ FirstProfile(response.user) = 0
         /\ FirstProgram(response.request.program_id) # 0)
        => /\ response.status = 200
           /\ ~Raised(response.body)
           /\ response.body.program_id = response.request.program_id
           /\ response.body.eligible = FALSE
           /\ response.body.match_score = 0
           /\ response.body.missing_requirements
                 = <<"Please complete your profile first">>

\* C13 witness: the sentinel answered for a program whose category is NULL,
\* on which the evaluator raises.
C13_Witness ==
    /\ response.op = "check_program_eligibility_endpoint"
    /\ FirstProfile(response.user) = 0
    /\ FirstProgram(response.request.program_id) # 0
    /\ grant_programs[FirstProgram(response.request.program_id)].category = None
    /\ response.status = 200
    /\ response.body.match_score = 0

\* C14: the single-program check of a program id that does not exist
\* answers 404 and no verdict, whether or not the user has a profile.
C14_UnknownProgramNotFound ==
    (response.op = "check_program_eligibility_endpoint"
         /\ FirstProgram(response.request.program_id) = 0)
        => /\ response.status = 404
           /\ response.body = [detail |-> "Program not found"]

\* C14 witness: 404 answered to a user without a profile, while programs
\* and another user's profile are stored.
C14_Witness ==
    /\ response.op = "check_program_eligibility_endpoint"
    /\ response.status = 404
    /\ FirstProfile(response.user) = 0
    /\ user_profiles # <<>>
    /\ grant_programs # <<>>

C15_ConcurrentCallsIndependent ==
    \A c \in DOMAIN calls :
        calls[c].pc = "done" =>
            calls[c].result
                = Some(check_program_eligibility(calls[c].profile,
                                                 calls[c].program))

\* C15 witness: a call returned a verdict with missing requirements while
\* another call, on another profile and program, was between two of its
\* rules with requirements already recorded.
C15_Witness ==
    \E c, d \in DOMAIN calls :
        /\ calls[c].pc = "done"
        /\ ~Raised(calls[c].result[1])
        /\ calls[c].result[1].missing_requirements # <<>>
        /\ calls[d].pc = "rules"
        /\ calls[d].profile # calls[c].profile
        /\ calls[d].program # calls[c].program
        /\ frames[Frame(d)].missing # <<>>

\* The stored profiles of a user.
ProfilesOf(user) ==
    {i \in 1..Len(user_profiles) : user_profiles[i].user_id = Some(user)}

\* C16: after any interleaving of get_profile and update_profile requests
\* no user has more than one stored profile, and the user of a completed
\* profile request has exactly one.
C16_OneProfilePerUser ==
    /\ \A user \in Users : Cardinality(ProfilesOf(user)) <= 1
    /\ response.op \in ProfileOps =>
          Cardinality(ProfilesOf(response.user)) = 1

\* ---------------------------------------- claims about authentication

\* The operations whose handler depends on get_current_user.
ProtectedOps ==
    {"check_eligibility", "check_program_eligibility_endpoint", "get_profile",
     "update_profile", "create_application", "list_applications",
     "get_application", "update_application", "delete_application", "get_me"}

\* A bearer token that verifies, has not expired and names a stored user.
IsValidBearer(token) ==
    /\ token.kind = "bearer"
    /\ token.signed
    /\ ~token.expired
    /\ token.sub # None
    /\ token.sub[1] \in Users

\* C18: every operation that requires a current user answers a request
\* without a valid bearer token of an existing user with 401, returns no
\* result of the operation, and leaves the stored state as it was.
C18_UnauthenticatedRejected ==
    [][(response'.op \in ProtectedOps /\ ~IsValidBearer(response'.token))
          => /\ response'.status = 401
             /\ response'.body \in {[detail |-> "Not authenticated"],
                                    [detail |-> "Could not validate credentials"]}
             /\ stored' = stored]_vars

\* C18 witness: a delete with the token of a user who is not stored was
\* answered 401 while a draft application, which a delete would remove,
\* is stored.
C18_Witness ==
    /\ response.op = "delete_application"
    /\ response.status = 401
    /\ response.token = Bearer(Some("u3"), TRUE, FALSE)
    /\ \E i \in 1..Len(applications) : applications[i].status = "draft"

\* ------------------------------------------ claims about applications

\* Whether user has a stored application for the program in status draft.
HasDraft(user, program_id) ==
    \E i \in 1..Len(applications) :
        /\ applications[i].user_id = user
        /\ applications[i].program_id = program_id
        /\ applications[i].status = "draft"

\* C19: create_application by a user who has a draft application for the
\* same program is answered 400 'already have a draft' and the stored
\* applications stay as they were.
C19_DuplicateDraftRejected ==
    [][(response'.op = "create_application" /\ response'.status # 401
           /\ HasDraft(response'.user, response'.request.program_id))
          => /\ response'.status = 400
             /\ response'.body =
                   [detail |->
                       "You already have a draft application for this program"]
             /\ applications' = applications]_vars

\* C19 witness: a create was answered 400 while the user's draft for the
\* program and an application of the other user are stored.
C19_Witness ==
    /\ response.op = "create_application"
    /\ response.status = 400
    /\ HasDraft(response.user, response.request.program_id)
    /\ \E i \in 1..Len(applications) : applications[i].user_id # response.user

\* C20: delete_application removes an application only when its status is
\* draft, and then only that one; for the user's application in any other
\* status it answers 400 and the stored applications stay as they were.
C20_DeleteOnlyDraft ==
    [][(response'.op = "delete_application" /\ response'.status # 401)
          => LET i == FirstApplication(response'.request.app_id, response'.user)
             IN /\ applications' # applications
                      => /\ i # 0
                         /\ applications[i].status = "draft"
                         /\ applications' = RemoveAt(applications, i)
                /\ (i # 0 /\ applications[i].status # "draft")
                      => /\ response'.status = 400
                         /\ response'.body =
                               [detail |-> "Can only delete draft applications"]
                         /\ applications' = applications]_vars

\* C20 witness: a delete was answered 400 and the application it named is
\* stored as submitted, with its form data.
C20_Witness ==
    /\ response.op = "delete_application"
    /\ response.status = 400
    /\ \E i \in 1..Len(applications) :
          /\ applications[i].id = response.request.app_id
          /\ applications[i].status = "submitted"
          /\ applications[i].submitted_at # None
          /\ applications[i].form_data # None

\* -------------------------------------------------- claims about accounts

\* The stored users with the email.
UsersWithEmail(email) == {n \in 1..Len(users) : users[n].email = email}

\* C21: registering with an email that is already registered is rejected
\* with status 409 and a detail containing 'already registered', and no
\* second user with that email is created.  (A register that was not
\* answered 200 stored nothing, so the email it carried is registered now
\* exactly if it was before.)
C21_DuplicateEmailConflict ==
    (response.op = "register" /\ response.status # 200
         /\ UsersWithEmail(response.request.email) # {})
        => /\ response.status = 409
           /\ response.body \in {[detail |-> "Email already registered"]}
           /\ Cardinality(UsersWithEmail(response.request.email)) = 1

\* C22: a successful registration answers an access_token of token_type
\* 'bearer' together with the new user's email, and a request presenting
\* that token is authenticated as that user.
C22_RegisterAnswersToken ==
    (response.op = "register" /\ response.status = 200)
        => /\ "access_token" \in DOMAIN response.body
           /\ response.body.token_type = "bearer"
           /\ response.body.user.email = response.request.email
           /\ get_current_user(response.body.access_token)
                 = Some(users[FirstUserByEmail(response.request.email)].id)

\* ------------------------------------------- claims on deadline reminders

\* The users the latest run of the reminder job called send_to_user for.
Reminded == {last_run.sends[n].user_id : n \in 1..Len(last_run.sends)}

\* The users a notification of the latest run was posted to APNs for.
Notified ==
    {last_run.sends[n].user_id :
        n \in {m \in 1..Len(last_run.sends) : last_run.sends[m].posted # <<>>}}

\* C23: a deadline reminder is sent only to users whose stored preference
\* has deadline_reminders true or who have no preference record; a user
\* whose stored deadline_reminders is false is sent none.
C23_RemindersRespectOptOut ==
    last_run.at # None =>
        \A user \in Notified :
            \/ FirstPreference(user) = 0
            \/ notification_preferences[FirstPreference(user)].deadline_reminders

\* Calendar days between the day of the run and the day of the deadline.
DaysAhead(deadline, now) == (deadline \div TicksPerDay) - (now \div TicksPerDay)

\* The text the claim gives for a deadline that many days ahead.
TextFor(days) ==
    CASE days = 7 -> "in 7 days"
      [] days = 3 -> "in 3 days"
      [] days = 1 -> "tomorrow"

\* The reminders of the latest run for one program.
RemindersFor(program_id) ==
    {n \in 1..Len(last_run.reminders) :
        last_run.reminders[n].program_id = program_id}

\* The calls of send_to_user of the latest run for one user and program.
SendsFor(user, program_id) ==
    {n \in 1..Len(last_run.sends) :
        /\ last_run.sends[n].user_id = user
        /\ last_run.sends[n].data.grantId = program_id}

\* C24: one run of check_and_send_deadline_reminders issues a reminder for
\* a program exactly when the program is active and its deadline falls on
\* the calendar day 7, 3 or 1 days after the run, with the text of that
\* distance; and no user is sent more than one reminder for one program.
C24_ReminderWindows ==
    last_run.at # None =>
        \A k \in 1..Len(grant_programs) :
            LET program == grant_programs[k]
                due == /\ program.is_active = TRUE
                       /\ program.deadline # None
                       /\ DaysAhead(program.deadline[1], last_run.at[1])
                             \in {7, 3, 1}
            IN /\ (RemindersFor(program.id) # {}) <=> due
               /\ Cardinality(RemindersFor(program.id)) <= 1
               /\ \A n \in RemindersFor(program.id) :
                     last_run.reminders[n].time_text
                        = TextFor(DaysAhead(program.deadline[1], last_run.at[1]))
               /\ \A user \in Reminded :
                     Cardinality(SendsFor(user, program.id)) <= 1

\* A run late on day 0 that reminds of the program due at the first instant
\* of tomorrow and of the one due at its last instant, and that posts a
\* notification to a device.
C24_Witness ==
    /\ last_run.at = Some(Date(0, LastTick))
    /\ grant_programs[1].deadline = Some(Date(1, 0))
    /\ grant_programs[1].is_active = TRUE
    /\ Len(last_run.reminders) = 2
    /\ \E n \in 1..Len(last_run.sends) : last_run.sends[n].posted # <<>>

\* -------------------------------------- claims on stored applications

\* The stored applications of user for the program in status draft.
DraftsOf(user, program_id) ==
    {i \in 1..Len(applications) :
        /\ applications[i].user_id = user
        /\ applications[i].program_id = program_id
        /\ applications[i].status = "draft"}

\* C25: after any sequence of create_application, update_application and
\* delete_application, a user has at most one application in status draft
\* for any one program.
C25_OneDraftPerProgram ==
    \A user \in Users :
        \A k \in 1..Len(grant_programs) :
            Cardinality(DraftsOf(user, grant_programs[k].id)) <= 1

\* The requests that name an application by its id.
ByAppId ==
    {"get_application", "update_application", "get_application_form_data",
     "generate_narratives", "download_application_pdf", "delete_application"}

\* The stored applications with the id that belong to someone else than user.
OfAnother(app_id, user) ==
    {i \in 1..Len(applications) :
        /\ applications[i].id = app_id
        /\ applications[i].user_id # user}

\* C26: a request of a user that names the id of another user's application
\* (get, update, form-data, generate-narratives, pdf, delete) is answered
\* 404 and leaves the stored applications as they were; list_applications
\* answers the applications of the caller and no other.
C26_ApplicationsIsolated ==
    [][/\ (response'.op \in ByAppId /\ response'.status # 401
              /\ OfAnother(response'.request.app_id, response'.user) # {})
          => /\ response'.status = 404
             /\ response'.body = [detail |-> "Application not found"]
             /\ applications' = applications
       /\ (response'.op = "list_applications" /\ response'.status # 401)
          => \A n \in 1..Len(response'.body.applications) :
                \E i \in 1..Len(applications) :
                   /\ applications[i].id = response'.body.applications[n].id
                   /\ applications[i].user_id = response'.user]_vars

\* C26 witness: generate-narratives on the id of another user's application,
\* which holds the form data of its owner, was answered 404.
C26_Witness ==
    /\ response.op = "generate_narratives"
    /\ response.status = 404
    /\ \E i \in OfAnother(response.request.app_id, response.user) :
          applications[i].form_data = Some(JsonDumps([project_title |-> "My Project"]))

\* C27: every stored application whose status is submitted has a
\* submitted_at that is not null.
C27_SubmittedHasTimestamp ==
    \A i \in 1..Len(applications) :
        applications[i].status = "submitted" => applications[i].submitted_at # None

\* C27 witness: the first application was submitted, put back to draft and
\* submitted again, and is stored with the time of the last submission.
C27_Witness ==
    /\ \E i \in 1..Len(applications) :
          /\ applications[i].status = "submitted"
          /\ applications[i].submitted_at = Some(MaxWrites)
          /\ applications[i].created_at = 1
    /\ response.op = "update_application"

\* ------------------------------- claims on the evaluator's use of a profile

\* The entries of a missing_requirements list.
Entries(missing) == {missing[n] : n \in 1..Len(missing)}

\* C28: filling in a profile never worsens a verdict: of two verdicts for
\* one program, the later one given for the profile with some absent fields
\* populated and organization_type unchanged, the later has a match_score
\* at least as high, no missing requirement the earlier did not have, and
\* is eligible if the earlier was.
C28_FillingNeverWorsens ==
    \A i, j \in 1..Len(returned) :
        (i < j /\ ~Raised(returned[i]) /\ ~Raised(returned[j]))
            => /\ returned[j].match_score >= returned[i].match_score
               /\ Entries(returned[j].missing_requirements)
                     \subseteq Entries(returned[i].missing_requirements)
               /\ returned[i].eligible => returned[j].eligible

\* C28 witness: a verdict that was not eligible and, after fields were
\* filled in, a verdict that is eligible with something still missing.
C28_Witness ==
    /\ Len(returned) = 2
    /\ clock > 0
    /\ ~returned[1].eligible
    /\ returned[2].eligible
    /\ returned[2].missing_requirements # <<>>

\* The profile with every present but falsy value taken out.
WithoutFalsy(profile) ==
    [f \in DOMAIN profile |->
        CASE f \in StrFields ->
                 IF profile[f] = Some("") THEN None ELSE profile[f]
          [] f = "sam_registered" ->
                 IF profile[f] = Some(FALSE) THEN None ELSE profile[f]
          [] f \in {"annual_revenue", "employee_count"} ->
                 IF profile[f] = Some(0) THEN None ELSE profile[f]
          [] OTHER -> profile[f]]

\* C30: the evaluator treats a value that is present but falsy (0 for
\* annual_revenue and employee_count, the empty string for
\* organization_name, ein, address, city, state and uei_number, false for
\* sam_registered) as it treats an absent one: what it returns is what it
\* returns for the profile without that value.
C30_FalsyAsAbsent ==
    \A i \in 1..Len(returned) :
        returned[i] = check_program_eligibility(WithoutFalsy(arg_profile),
                                                arg_program)

\* C30 witness: a verdict for a small-business program and a profile whose
\* annual_revenue is 0, in which annual revenue is missing.
C30_Witness ==
    /\ returned # <<>>
    /\ arg_profile.annual_revenue = Some(0)
    /\ arg_profile.employee_count = Some(10)
    /\ ~Raised(returned[1])
    /\ "Annual revenue information needed"
          \in Entries(returned[1].missing_requirements)
    /\ "Employee count needed" \notin Entries(returned[1].missing_requirements)

\* Whether the answers agree: aggregate an answer of check_eligibility and
\* single an answer of the single-program check, both 200, for one user who
\* has a profile and for a program that is active.
Agree(aggregate, single) ==
    (/\ aggregate.op = "check_eligibility"
     /\ single.op = "check_program_eligibility_endpoint"
     /\ aggregate.status = 200
     /\ single.status = 200
     /\ aggregate.user = single.user
     /\ FirstProfile(single.user) # 0
     /\ \E k \in 1..Len(grant_programs) :
           /\ grant_programs[k].id = single.request.program_id
           /\ grant_programs[k].is_active)
        => /\ \E n \in 1..Len(aggregate.body.programs) :
                 aggregate.body.programs[n].program_id = single.request.program_id
           /\ \A n \in 1..Len(aggregate.body.programs) :
                 aggregate.body.programs[n].program_id = single.request.program_id
                     => aggregate.body.programs[n] = single.body

\* C29: for a user with a profile and an active program, the verdict of
\* the single-program check equals the verdict for that program in the
\* result of check_eligibility, when one request follows the other with
\* nothing stored in between.
C29_SingleAgreesWithAggregate ==
    [][Agree(response, response') /\ Agree(response', response)]_vars

\* C29 witness: the single-program check answered, for a user with a
\* profile, a verdict with something missing for the second of two active
\* programs.
C29_Witness ==
    /\ response.op = "check_program_eligibility_endpoint"
    /\ response.status = 200
    /\ FirstProfile(response.user) # 0
    /\ response.request.program_id = ProgramId(2)
    /\ Len(ActivePrograms) >= 2
    /\ response.body.missing_requirements # <<>>
    /\ response.body.match_score > 0

====
